---- MODULE Spec2Model ----
(***************************************************************************)
(* HWP planning portal scraper (scraper/hwp_portal_scraper.py).            *)
(*                                                                         *)
(* Text is modelled character by character: a Python str is a sequence of  *)
(* one-character strings, "" is << >>, and None is the value NULL, which   *)
(* no str equals.  A Python dict is a function whose DOMAIN is its key set.*)
(***************************************************************************)
EXTENDS Integers, Sequences, FiniteSets, TLC

(* ---------------------------------------------------------------------- *)
(* Python values                                                          *)
(* ---------------------------------------------------------------------- *)

(* None. *)
NULL ==
  <<"None">>

(* Truth value of a str-or-None in a Python condition ("if x:", "x and"). *)
Truthy(v) ==
  v # NULL /\ v # << >>

UpperChars ==
  <<"A","B","C","D","E","F","G","H","I","J","K","L","M",
    "N","O","P","Q","R","S","T","U","V","W","X","Y","Z">>

LowerChars ==
  <<"a","b","c","d","e","f","g","h","i","j","k","l","m",
    "n","o","p","q","r","s","t","u","v","w","x","y","z">>

(* Characters str.strip() removes. *)
Whitespace ==
  {" "}

(* str.lower() *)
lower(s) ==
  [i \in 1..Len(s) |->
     IF \E k \in 1..26 : UpperChars[k] = s[i]
       THEN LowerChars[CHOOSE k \in 1..26 : UpperChars[k] = s[i]]
       ELSE s[i]]

(* str.upper() *)
upper(s) ==
  [i \in 1..Len(s) |->
     IF \E k \in 1..26 : LowerChars[k] = s[i]
       THEN UpperChars[CHOOSE k \in 1..26 : LowerChars[k] = s[i]]
       ELSE s[i]]

(* str.strip() *)
strip(s) ==
  LET keep == {i \in 1..Len(s) : s[i] \notin Whitespace}
  IN  IF keep = {} THEN << >>
      ELSE SubSeq(s, CHOOSE i \in keep : \A j \in keep : i <= j,
                     CHOOSE i \in keep : \A j \in keep : j <= i)

(* "key in s" for two strs. *)
contains(key, s) ==
  \E i \in 0..(Len(s) - Len(key)) : SubSeq(s, i + 1, i + Len(key)) = key

(* ---------------------------------------------------------------------- *)
(* Status normaliser                                                      *)
(* ---------------------------------------------------------------------- *)

(* The five dashboard status values that STATUS_MAP maps to. *)
FurtherInformationRequested ==
  <<"F","u","r","t","h","e","r"," ","I","n","f","o","r","m","a","t","i","o","n"," ","R","e","q","u","e","s","t","e","d">>
NewApplication ==
  <<"N","e","w"," ","A","p","p","l","i","c","a","t","i","o","n">>
DecisionMade ==
  <<"D","e","c","i","s","i","o","n"," ","M","a","d","e">>
FinalGrantIssued ==
  <<"F","i","n","a","l"," ","G","r","a","n","t"," ","I","s","s","u","e","d">>
Invalid ==
  <<"I","n","v","a","l","i","d">>

(* STATUS_MAP: the dict literal, entry by entry in source order, each entry
   <<key, value>>.  The literal repeats the keys "new application" and
   "refuse permission"; dict_items gives the dict Python builds from it. *)
STATUS_MAP ==
  <<
    << <<"f","u","r","t","h","e","r"," ","i","n","f","o","r","m","a","t","i","o","n">>,
       FurtherInformationRequested >>,
    << <<"f","u","r","t","h","e","r"," ","i","n","f","o","r","m","a","t","i","o","n"," ","r","e","q","u","e","s","t","e","d">>,
       FurtherInformationRequested >>,
    << <<"n","e","w"," ","a","p","p","l","i","c","a","t","i","o","n">>,
       NewApplication >>,
    << <<"n","e","w">>,
       NewApplication >>,
    << <<"d","e","c","i","s","i","o","n"," ","m","a","d","e">>,
       DecisionMade >>,
    << <<"g","r","a","n","t">>,
       FinalGrantIssued >>,
    << <<"g","r","a","n","t"," ","p","e","r","m","i","s","s","i","o","n">>,
       FinalGrantIssued >>,
    << <<"g","r","a","n","t"," ","w","i","t","h"," ","c","o","n","d","i","t","i","o","n","s">>,
       DecisionMade >>,
    << <<"r","e","f","u","s","e">>,
       DecisionMade >>,
    << <<"r","e","f","u","s","e"," ","p","e","r","m","i","s","s","i","o","n">>,
       DecisionMade >>,
    << <<"i","n","v","a","l","i","d">>,
       Invalid >>,
    << <<"w","i","t","h","d","r","a","w","n">>,
       Invalid >>,
    << <<"n","e","w"," ","a","p","p">>,
       NewApplication >>,
    << <<"n","e","w"," ","a","p","p","l","i","c","a","t","i","o","n">>,
       NewApplication >>,
    << <<"f","i"," ","r","e","q","u","e","s","t","e","d">>,
       FurtherInformationRequested >>,
    << <<"f","i"," ","r","e","c","e","i","v","e","d">>,
       FurtherInformationRequested >>,
    << <<"d","e","c","i","d","e","d">>,
       DecisionMade >>,
    << <<"a","p","p","l","i","c","a","t","i","o","n"," ","f","i","n","a","l","i","s","e","d">>,
       DecisionMade >>,
    << <<"g","r","a","n","t","e","d">>,
       FinalGrantIssued >>,
    << <<"p","e","r","m","i","s","s","i","o","n"," ","c">>,
       FinalGrantIssued >>,
    << <<"p","e","r","m","i","s","s","i","o","n">>,
       FinalGrantIssued >>,
    << <<"r","e","f","u","s","e","d">>,
       DecisionMade >>,
    << <<"r","e","f","u","s","e"," ","p","e","r","m","i","s","s","i","o","n">>,
       DecisionMade >>,
    << <<"r","e","t","e","n","t","i","o","n">>,
       NewApplication >>
  >>

(* The (key, value) pairs of the dict built from a literal, in iteration
   order: a key keeps the position of its first occurrence and takes the
   value of its last. *)
dict_items(lit) ==
  LET firsts == {i \in 1..Len(lit) : \A j \in 1..(i - 1) : lit[j][1] # lit[i][1]}
      final(i) == CHOOSE j \in 1..Len(lit) :
                   /\ lit[j][1] = lit[i][1]
                   /\ \A k \in 1..Len(lit) : lit[k][1] = lit[i][1] => k <= j
      nth[n \in 1..Cardinality(firsts)] ==
        CHOOSE i \in firsts : Cardinality({j \in firsts : j < i}) = n - 1
  IN  [n \in 1..Cardinality(firsts) |-> << lit[nth[n]][1], lit[final(nth[n])][2] >>]

STATUS_ITEMS ==
  dict_items(STATUS_MAP)

(* The loop over STATUS_MAP.items(): the value of the first of items whose
   key is contained in cleaned, and otherwise when there is none. *)
RECURSIVE status_lookup(_, _, _)
status_lookup(items, cleaned, otherwise) ==
  IF items = << >> THEN otherwise
  ELSE IF contains(items[1][1], cleaned) THEN items[1][2]
  ELSE status_lookup(Tail(items), cleaned, otherwise)

(* normalise_status returning the value of the last key that matches. *)
normalise_status_last_match(raw_status) ==
  IF ~Truthy(raw_status) THEN NULL
  ELSE status_lookup([i \in 1..Len(STATUS_ITEMS) |-> STATUS_ITEMS[Len(STATUS_ITEMS) + 1 - i]],
                     lower(strip(raw_status)), strip(raw_status))

normalise_status(raw_status) ==
  IF ~Truthy(raw_status) THEN NULL
  ELSE status_lookup(STATUS_ITEMS, lower(strip(raw_status)), strip(raw_status))

(* ---------------------------------------------------------------------- *)
(* Date parser                                                            *)
(* ---------------------------------------------------------------------- *)

Digits ==
  <<"0","1","2","3","4","5","6","7","8","9">>

is_digit(c) ==
  \E k \in 1..10 : Digits[k] = c

digit_value(c) ==
  (CHOOSE k \in 1..10 : Digits[k] = c) - 1

all_digits(s) ==
  \A i \in 1..Len(s) : is_digit(s[i])

(* int() of a non-empty run of decimal digits. *)
RECURSIVE to_int(_)
to_int(s) ==
  IF s = << >> THEN 0
  ELSE 10 * to_int(SubSeq(s, 1, Len(s) - 1)) + digit_value(s[Len(s)])

(* n written with at least w digits, zero padded (strftime %Y, %m, %d). *)
RECURSIVE zero_pad(_, _)
zero_pad(n, w) ==
  IF w <= 1 /\ n < 10 THEN << Digits[n + 1] >>
  ELSE zero_pad(n \div 10, w - 1) \o << Digits[(n % 10) + 1] >>

(* str.split(sep) for a one-character sep. *)
RECURSIVE split(_, _)
split(s, sep) ==
  LET at == {i \in 1..Len(s) : s[i] = sep}
  IN  IF at = {} THEN << s >>
      ELSE LET i == CHOOSE k \in at : \A j \in at : k <= j
           IN  << SubSeq(s, 1, i - 1) >> \o split(SubSeq(s, i + 1, Len(s)), sep)

(* The pieces of s between runs of whitespace: how strptime reads a blank in
   a format (one or more whitespace characters) between two fields. *)
split_blank(s) ==
  SelectSeq(split(s, " "), LAMBDA p : p # << >>)

(* s with every occurrence of the character c removed (str.replace(c, "")). *)
remove_char(s, c) ==
  SelectSeq(s, LAMBDA x : x # c)

MonthNames ==
  << <<"j","a","n","u","a","r","y">>,
     <<"f","e","b","r","u","a","r","y">>,
     <<"m","a","r","c","h">>,
     <<"a","p","r","i","l">>,
     <<"m","a","y">>,
     <<"j","u","n","e">>,
     <<"j","u","l","y">>,
     <<"a","u","g","u","s","t">>,
     <<"s","e","p","t","e","m","b","e","r">>,
     <<"o","c","t","o","b","e","r">>,
     <<"n","o","v","e","m","b","e","r">>,
     <<"d","e","c","e","m","b","e","r">> >>

(* strptime field %d: 1..31 in one or two digits, or a blank and one digit.
   0 stands for "does not match". *)
field_d(p) ==
  IF Len(p) \in {1, 2} /\ all_digits(p) /\ to_int(p) \in 1..31 THEN to_int(p)
  ELSE IF Len(p) = 2 /\ p[1] = " " /\ is_digit(p[2]) /\ digit_value(p[2]) >= 1
         THEN digit_value(p[2])
  ELSE 0

(* strptime field %m: 1..12 in one or two digits. *)
field_m(p) ==
  IF Len(p) \in {1, 2} /\ all_digits(p) /\ to_int(p) \in 1..12 THEN to_int(p) ELSE 0

(* strptime field %Y: exactly four digits; datetime has no year 0. *)
field_Y(p) ==
  IF Len(p) = 4 /\ all_digits(p) THEN to_int(p) ELSE 0

(* strptime field %B: a full month name, in any case. *)
field_B(p) ==
  IF \E k \in 1..12 : MonthNames[k] = lower(p)
    THEN CHOOSE k \in 1..12 : MonthNames[k] = lower(p)
    ELSE 0

(* strptime field %b: the first three letters of a month name, in any case. *)
field_b(p) ==
  IF \E k \in 1..12 : SubSeq(MonthNames[k], 1, 3) = lower(p)
    THEN CHOOSE k \in 1..12 : SubSeq(MonthNames[k], 1, 3) = lower(p)
    ELSE 0

days_in_month(y, m) ==
  IF m = 2
    THEN (IF (y % 4 = 0 /\ y % 100 # 0) \/ y % 400 = 0 THEN 29 ELSE 28)
    ELSE (IF m \in {4, 6, 9, 11} THEN 30 ELSE 31)

(* datetime(y, m, d).strftime("%Y-%m-%d"), or NULL where the constructor
   raises ValueError (a field that did not match, or a day the month lacks). *)
iso_date(y, m, d) ==
  IF y = 0 \/ m = 0 \/ d = 0 THEN NULL
  ELSE IF d > days_in_month(y, m) THEN NULL
  ELSE zero_pad(y, 4) \o <<"-">> \o zero_pad(m, 2) \o <<"-">> \o zero_pad(d, 2)

(* The date of the three pieces p that format fmt cuts a text into; NULL
   stands for ValueError. *)
strptime_fields(p, fmt) ==
  IF Len(p) # 3 THEN NULL
  ELSE CASE fmt = 1 -> iso_date(field_Y(p[3]), field_b(p[2]), field_d(p[1]))
         [] fmt = 2 -> iso_date(field_Y(p[3]), field_m(p[2]), field_d(p[1]))
         [] fmt = 3 -> iso_date(field_Y(p[1]), field_m(p[2]), field_d(p[3]))
         [] fmt = 4 -> iso_date(field_Y(p[3]), field_B(p[2]), field_d(p[1]))
         [] fmt = 5 -> iso_date(field_Y(p[3]), field_m(p[2]), field_d(p[1]))

(* datetime.strptime(s, fmt).strftime("%Y-%m-%d") for the five formats of
   the list, by number; NULL stands for ValueError. *)
strptime_date(s, fmt) ==
  strptime_fields(CASE fmt = 1 -> split_blank(s)
                    [] fmt = 2 -> split(s, "/")
                    [] fmt = 3 -> split(s, "-")
                    [] fmt = 4 -> split_blank(s)
                    [] fmt = 5 -> split(s, "-"),
                  fmt)

(* Two digits with a value of at most hi. *)
two_digits(p, hi) ==
  Len(p) = 2 /\ all_digits(p) /\ to_int(p) <= hi

(* datetime.fromisoformat(s).strftime("%Y-%m-%d") for the shape the Agile
   API sends, YYYY-MM-DDTHH:MM[:SS]; NULL stands for ValueError. *)
fromisoformat_date(s) ==
  IF Len(s) < 16 \/ s[11] # "T" THEN NULL
  ELSE LET d == split(SubSeq(s, 1, 10), "-")
           t == split(SubSeq(s, 12, Len(s)), ":")
       IN  IF /\ Len(d) = 3
              /\ Len(d[1]) = 4 /\ Len(d[2]) = 2 /\ Len(d[3]) = 2
              /\ Len(t) \in {2, 3}
              /\ two_digits(t[1], 23)
              /\ \A i \in 2..Len(t) : two_digits(t[i], 59)
             THEN iso_date(field_Y(d[1]), field_m(d[2]), field_d(d[3]))
             ELSE NULL

DatePlaceholders ==
  { << >>, <<"-">>, <<"N","/","A">>, <<"N","o","n","e">> }

(* a, unless a is None: then b. *)
or_else(a, b) ==
  IF a # NULL THEN a ELSE b

(* The loop over the formats, from format fmt on: the first format that
   parses s gives the result. *)
RECURSIVE strptime_formats(_, _)
strptime_formats(s, fmt) ==
  IF fmt > 5 THEN NULL
  ELSE or_else(strptime_date(s, fmt), strptime_formats(s, fmt + 1))

(* parse_date after s = date_str.strip(). *)
parse_stripped(s) ==
  or_else(IF \E i \in 1..Len(s) : s[i] = "T"
            THEN fromisoformat_date(remove_char(s, "Z"))
            ELSE NULL,
          strptime_formats(s, 1))

parse_date(date_str) ==
  IF ~Truthy(date_str) THEN NULL
  ELSE IF strip(date_str) \in DatePlaceholders THEN NULL
  ELSE parse_stripped(strip(date_str))

(* ---------------------------------------------------------------------- *)
(* Python dicts                                                           *)
(* ---------------------------------------------------------------------- *)

(* None, where a dict may stand. *)
NullDict ==
  ("None" :> NULL)

(* {} *)
EmptyDict ==
  << >>

(* Truth value of a dict-or-None in a Python condition. *)
DictTruthy(d) ==
  d # NullDict /\ DOMAIN d # {}

(* d.get(k) *)
get(d, k) ==
  IF k \in DOMAIN d THEN d[k] ELSE NULL

(* d.get(k, default) *)
get_default(d, k, default) ==
  IF k \in DOMAIN d THEN d[k] ELSE default

(* d[k] = v *)
set(d, k, v) ==
  (k :> v) @@ d

(* d.update(e) *)
update(d, e) ==
  e @@ d

(* ---------------------------------------------------------------------- *)
(* AgilePortalScraper                                                     *)
(* ---------------------------------------------------------------------- *)

(* One pass of the loop over detail_data.items() in _fetch_detail. *)
detail_field(result, key, value) ==
  LET key_lower == lower(key)
  IN  IF contains(<<"s","u","b","m","i","s","s","i","o","n","s">>, key_lower) \/ contains(<<"o","b","s","e","r","v","a","t","i","o","n","s">>, key_lower)
        THEN set(result, "subDue", parse_date(value))
      ELSE IF contains(<<"d","e","c","i","s","i","o","n"," ","d","u","e">>, key_lower)
        THEN set(result, "decDue", parse_date(value))
      ELSE IF contains(<<"f","i","n","a","l"," ","g","r","a","n","t">>, key_lower)
        THEN (IF ~Truthy(get(result, "grantDate"))
                THEN set(result, "grantDate", parse_date(value))
                ELSE result)
      ELSE IF key_lower = <<"s","t","a","t","u","s">>
        THEN (IF Truthy(value) /\ value # <<"$","c","t","r","l",".","m","o","d","e","l">>
                THEN set(set(result, "status", normalise_status(value)), "raw_status", value)
                ELSE result)
      ELSE IF contains(<<"a","p","p","l","i","c","a","n","t">>, key_lower) /\ Truthy(value)
        THEN set(result, "client", value)
      ELSE IF contains(<<"e","i","r","c","o","d","e">>, key_lower) /\ Truthy(value)
        THEN set(result, "eircode", value)
      ELSE result

RECURSIVE detail_fields(_, _)
detail_fields(result, items) ==
  IF items = << >> THEN result
  ELSE detail_fields(detail_field(result, items[1][1], items[1][2]), Tail(items))

(* AgilePortalScraper._fetch_detail.  env is what the browser does: detail_load
   is "ok" or "timeout" (goto / wait_for_selector), detail_eval is "ok" or
   "raise" (page.evaluate), detail_data the label -> value pairs the page
   script returns, in the order it made them. *)
_fetch_detail(env) ==
  IF env.detail_load # "ok" THEN EmptyDict
  ELSE IF env.detail_eval # "ok" THEN EmptyDict
  ELSE IF env.detail_data = << >> THEN EmptyDict
  ELSE detail_fields(EmptyDict, env.detail_data)

(* The end of scrape_application: result, updated with the detail-page fields
   when there are any. *)
merge_detail(result, detail) ==
  IF DictTruthy(detail) THEN update(result, detail) ELSE result

(* scrape_application without the reference check of lines 240-242. *)
Agile_scrape_application_any_reference(base_url, ref, env) ==
  IF env.search # "ok" THEN NullDict
  ELSE IF env.search_eval # "ok" THEN NullDict
  ELSE LET row_data == env.row_data
       IN  IF ~DictTruthy(row_data) \/ "error" \in DOMAIN row_data THEN NullDict
           ELSE merge_detail(
                      [ ref             |-> get_default(row_data, "reference", ref),
                        status          |-> normalise_status(get(row_data, "status")),
                        raw_status      |-> get(row_data, "status"),
                        client          |-> get_default(row_data, "applicantSurname", << >>),
                        agent           |-> get_default(row_data, "agentName", << >>),
                        proposal        |-> get_default(row_data, "proposal", << >>),
                        location        |-> get_default(row_data, "location", << >>),
                        regDate         |-> parse_date(get(row_data, "registrationDate")),
                        decDate         |-> parse_date(get(row_data, "decisionDate")),
                        grantDate       |-> parse_date(get(row_data, "finalGrantDate")),
                        decisionOutcome |-> get_default(row_data, "decisionText", << >>),
                        agile_id        |-> get(row_data, "id"),
                        detail_url      |-> << base_url, "/application-details/", get(row_data, "id") >> ],
                      IF Truthy(get(row_data, "id")) THEN _fetch_detail(env) ELSE EmptyDict)

(* AgilePortalScraper.scrape_application.  env.search is "ok" or "timeout"
   (goto / wait_for_selector), env.search_eval is "ok" or "raise"
   (page.evaluate), env.row_data what the page script returns: NullDict, a
   dict with the key "error", or the row's data object. *)
Agile_scrape_application(base_url, ref, env) ==
  IF env.search # "ok" THEN NullDict
  ELSE IF env.search_eval # "ok" THEN NullDict
  ELSE LET row_data == env.row_data
       IN  IF ~DictTruthy(row_data) \/ "error" \in DOMAIN row_data THEN NullDict
           ELSE IF get(row_data, "reference") # ref THEN NullDict
           ELSE merge_detail(
                      [ ref             |-> get_default(row_data, "reference", ref),
                        status          |-> normalise_status(get(row_data, "status")),
                        raw_status      |-> get(row_data, "status"),
                        client          |-> get_default(row_data, "applicantSurname", << >>),
                        agent           |-> get_default(row_data, "agentName", << >>),
                        proposal        |-> get_default(row_data, "proposal", << >>),
                        location        |-> get_default(row_data, "location", << >>),
                        regDate         |-> parse_date(get(row_data, "registrationDate")),
                        decDate         |-> parse_date(get(row_data, "decisionDate")),
                        grantDate       |-> parse_date(get(row_data, "finalGrantDate")),
                        decisionOutcome |-> get_default(row_data, "decisionText", << >>),
                        agile_id        |-> get(row_data, "id"),
                        detail_url      |-> << base_url, "/application-details/", get(row_data, "id") >> ],
                      IF Truthy(get(row_data, "id")) THEN _fetch_detail(env) ELSE EmptyDict)

(* ---------------------------------------------------------------------- *)
(* EPlanningPortalScraper                                                 *)
(* ---------------------------------------------------------------------- *)

(* str.rstrip(":") *)
RECURSIVE rstrip_colon(_)
rstrip_colon(s) ==
  IF s # << >> /\ s[Len(s)] = ":" THEN rstrip_colon(SubSeq(s, 1, Len(s) - 1)) ELSE s

(* The outcome of a call that raised. *)
Raised ==
  ("raise" :> NULL)

(* The condition of the error-page test,
     A or B if soup.title else False
   which Python reads as (A or B) if soup.title else False.  html is a record:
   title is NullDict when the page has no <title>, else [string |-> s] with
   s = NULL when the title has no single string; text is the page's text.
   "raise" stands for the AttributeError of None.lower(). *)
error_page_test(html) ==
  IF html.title = NullDict THEN "false"
  ELSE IF contains(<<"n","o"," ","r","e","s","u","l","t","s"," ","f","o","u","n","d">>, lower(html.text)) THEN "true"
  ELSE IF html.title.string = NULL THEN "raise"
  ELSE IF contains(<<"e","r","r","o","r">>, lower(html.title.string)) THEN "true"
  ELSE "false"

(* The body of the loop over the table rows for one row with at least two
   cells, whose texts are cell1 and cell2. *)
detail_row(result, cell1, cell2) ==
  LET label == rstrip_colon(lower(strip(cell1)))
      value == strip(cell2)
  IN  IF ~Truthy(value) \/ value = <<"-">> THEN result
      ELSE IF contains(<<"f","i","l","e"," ","n","u","m","b","e","r">>, label)
        THEN set(result, "ref", value)
      ELSE IF contains(<<"p","l","a","n","n","i","n","g"," ","s","t","a","t","u","s">>, label)
        THEN set(set(result, "status", normalise_status(value)), "raw_status", value)
      ELSE IF contains(<<"d","e","c","i","s","i","o","n"," ","d","u","e">>, label)
        THEN set(result, "decDue", parse_date(value))
      ELSE IF label = <<"d","e","c","i","s","i","o","n"," ","d","a","t","e">> \/ label = <<"d","e","c","i","s","i","o","n"," ","d","a","t","e">>
        THEN set(result, "decDate", parse_date(value))
      ELSE IF contains(<<"d","e","c","i","s","i","o","n"," ","t","y","p","e">>, label)
        THEN set(result, "decisionOutcome", value)
      ELSE IF contains(<<"r","e","c","e","i","v","e","d"," ","d","a","t","e">>, label)
        THEN set(result, "regDate", parse_date(value))
      ELSE IF contains(<<"a","p","p","l","i","c","a","n","t"," ","n","a","m","e">>, label)
        THEN set(result, "client", value)
      ELSE IF contains(<<"d","e","v","e","l","o","p","m","e","n","t"," ","a","d","d","r","e","s","s">>, label)
        THEN set(result, "location", value)
      ELSE IF contains(<<"d","e","v","e","l","o","p","m","e","n","t"," ","d","e","s","c","r","i","p","t","i","o","n">>, label)
        THEN set(result, "proposal", value)
      ELSE IF contains(<<"g","r","a","n","t"," ","d","a","t","e">>, label)
        THEN set(result, "grantDate", parse_date(value))
      ELSE IF contains(<<"s","u","b","m","i","s","s","i","o","n","s"," ","b","y">>, label)
        THEN set(result, "subDue", parse_date(value))
      ELSE IF contains(<<"f","u","r","t","h","e","r"," ","i","n","f","o"," ","r","e","q","u","e","s","t","e","d">>, label) /\ Truthy(value)
        THEN LET r == set(result, "fi_requested", parse_date(value))
             IN  IF get(r, "status") = NewApplication /\ Truthy(parse_date(value))
                   THEN set(r, "status", FurtherInformationRequested)
                   ELSE r
      ELSE IF contains(<<"f","u","r","t","h","e","r"," ","i","n","f","o"," ","r","e","c","e","i","v","e","d">>, label) /\ Truthy(value)
        THEN set(result, "fi_received", parse_date(value))
      ELSE result

RECURSIVE detail_rows(_, _)
detail_rows(result, rows) ==
  IF rows = << >> THEN result
  ELSE detail_rows(detail_row(result, rows[1][1], rows[1][2]), Tail(rows))

(* The return of _parse_detail_page: result if len(result) > 1 else None. *)
result_or_none(result) ==
  IF Cardinality(DOMAIN result) > 1 THEN result ELSE NullDict

(* EPlanningPortalScraper._parse_detail_page.  html.rows are the <tr> rows
   that have at least two <td> cells, as << text of cell 1, text of cell 2 >>. *)
_parse_detail_page(html, ref) ==
  LET test == error_page_test(html)
  IN  IF test = "raise" THEN Raised
      ELSE IF test = "true" THEN NullDict
      ELSE result_or_none(detail_rows([ref |-> ref], html.rows))

(* The except clause of scrape_application: an exception raised while the
   page was fetched or parsed becomes None. *)
except_none(parsed) ==
  IF parsed = Raised THEN NullDict ELSE parsed

(* EPlanningPortalScraper.scrape_application without its except clause. *)
EPlanning_scrape_application_uncaught(ref, env) ==
  IF env.http # "ok" THEN Raised
  ELSE _parse_detail_page(env.html, ref)

(* EPlanningPortalScraper.scrape_application.  env.http is "ok",
   "transport_error" (session.get raises) or "http_error" (raise_for_status
   raises); env.html is the page of the response. *)
EPlanning_scrape_application(ref, env) ==
  IF env.http # "ok" THEN NullDict
  ELSE except_none(_parse_detail_page(env.html, ref))

(* ---------------------------------------------------------------------- *)
(* What the portals answer                                                *)
(* ---------------------------------------------------------------------- *)

(* Application references. *)
Refs ==
  { <<"2","5","/","6","7","9","6">>, <<"2","5","6","1","3","3","9">> }

(* Row objects of the Agile search table (scope.row), and the two other
   values the page script returns: null and {error: message}. *)
AgileRows ==
  { NullDict,
    [error |-> <<"a","n","g","u","l","a","r"," ","i","s"," ","n","o","t"," ","d","e","f","i","n","e","d">>],
    [id |-> <<"1","0","1">>, reference |-> <<"2","5","/","6","7","9","6">>, status |-> <<"f","u","r","t","h","e","r"," ","i","n","f","o","r","m","a","t","i","o","n">>,
     applicantSurname |-> <<"M","u","r","p","h","y">>, registrationDate |-> <<"2","0","2","5","-","1","2","-","1","5","T","0","0",":","0","0",":","0","0">>,
     decisionDate |-> NULL, finalGrantDate |-> NULL, decisionText |-> << >>],
    [id |-> <<"1","0","1">>, reference |-> <<"2","5","/","6","7","9","6">>, status |-> <<"G","R","A","N","T"," ","P","E","R","M","I","S","S","I","O","N">>,
     applicantSurname |-> <<"B","y","r","n","e">>, registrationDate |-> <<"2","0","2","5","-","1","2","-","1","5","T","0","0",":","0","0",":","0","0">>,
     decisionDate |-> <<"2","0","2","6","-","0","1","-","2","0","T","0","0",":","0","0",":","0","0">>, finalGrantDate |-> <<"2","0","2","6","-","0","2","-","1","1","T","0","0",":","0","0",":","0","0","Z">>,
     decisionText |-> <<"C","o","n","d","i","t","i","o","n","a","l">>],
    [reference |-> <<"2","5","/","6","7","9","6">>, status |-> <<"N","e","w"," ","A","p","p","l","i","c","a","t","i","o","n">>],
    [id |-> <<"1","0","2">>, reference |-> <<"2","5","/","6","7","9","6","0">>, status |-> <<"N","e","w"," ","A","p","p","l","i","c","a","t","i","o","n">>,
     applicantSurname |-> <<"W","a","l","s","h">>],
    [id |-> <<"1","0","5">>, reference |-> <<"2","5","6","1","3","3","9">>, error |-> <<"r","o","w"," ","n","o","t"," ","r","e","a","d","y">>],
    [id |-> <<"1","0","3">>, status |-> <<"N","e","w"," ","A","p","p","l","i","c","a","t","i","o","n">>],
    [id |-> <<"1","0","4">>, reference |-> <<"2","5","6","1","3","3","9">>, status |-> <<"A","p","p","e","a","l"," ","L","o","d","g","e","d">>,
     applicantSurname |-> NULL, decisionDate |-> <<"-">>] }

(* Label -> value pairs the script of the Agile detail page returns. *)
AgileDetails ==
  { << >>,
    << << <<"S","t","a","t","u","s">>, <<"F","u","r","t","h","e","r"," ","I","n","f","o","r","m","a","t","i","o","n">> >>,
       << <<"D","e","c","i","s","i","o","n"," ","D","u","e"," ","D","a","t","e">>, <<"1","8","/","0","2","/","2","0","2","6">> >>,
       << <<"S","u","b","m","i","s","s","i","o","n","s","/","O","b","s","e","r","v","a","t","i","o","n","s"," ","D","u","e">>, <<"2","0"," ","J","a","n"," ","2","0","2","6">> >>,
       << <<"A","p","p","l","i","c","a","n","t"," ","n","a","m","e">>, <<"M","u","r","p","h","y"," ","L","t","d">> >> >>,
    << << <<"F","i","n","a","l"," ","G","r","a","n","t"," ","D","a","t","e">>, <<"1","2"," ","M","a","r","c","h"," ","2","0","2","6">> >>,
       << <<"F","i","n","a","l"," ","G","r","a","n","t"," ","D","a","t","e"," ","(","d","i","s","p","l","a","y",")">>, <<"1","4","/","0","3","/","2","0","2","6">> >>,
       << <<"E","i","r","c","o","d","e">>, <<"P","5","1"," ","X","2","Y","3">> >> >>,
    << << <<"D","e","c","i","s","i","o","n"," ","D","u","e"," ","D","a","t","e">>, <<"t","o"," ","b","e"," ","c","o","n","f","i","r","m","e","d">> >>,
       << <<"S","t","a","t","u","s"," ","(","d","i","s","p","l","a","y",")">>, <<"D","e","c","i","d","e","d">> >> >> }

(* Everything the browser can do during one AgilePortalScraper call. *)
AgileEnvs ==
  [ search      : {"ok", "timeout"},
    search_eval : {"ok", "raise"},
    row_data    : AgileRows,
    detail_load : {"ok", "timeout"},
    detail_eval : {"ok", "raise"},
    detail_data : AgileDetails ]

(* <title> of an ePlanning page: none, one with a string, one without. *)
EPlanningTitles ==
  { NullDict,
    [string |-> <<"P","l","a","n","n","i","n","g"," ","A","p","p","l","i","c","a","t","i","o","n"," ","D","e","t","a","i","l","s">>],
    [string |-> <<"S","e","r","v","e","r"," ","E","r","r","o","r">>],
    [string |-> NULL] }

(* Text of an ePlanning page outside its table. *)
EPlanningTexts ==
  { <<"A","p","p","l","i","c","a","t","i","o","n"," ","D","e","t","a","i","l","s">>, <<"N","o"," ","R","e","s","u","l","t","s"," ","F","o","u","n","d">> }

(* Two-cell rows of an ePlanning page. *)
EPlanningRows ==
  { << >>,
    << << <<"F","i","l","e"," ","N","u","m","b","e","r",":">>, <<"2","5","6","1","3","3","9">> >> >>,
    << << <<"F","i","l","e"," ","N","u","m","b","e","r",":">>, <<"2","5","6","1","3","3","9">> >>,
       << <<"P","l","a","n","n","i","n","g"," ","S","t","a","t","u","s",":">>, <<"N","E","W"," ","A","P","P","L","I","C","A","T","I","O","N">> >>,
       << <<"R","e","c","e","i","v","e","d"," ","D","a","t","e",":">>, <<"1","6","/","1","2","/","2","0","2","5">> >>,
       << <<"D","e","c","i","s","i","o","n"," ","D","u","e"," ","D","a","t","e",":">>, <<"1","8","/","0","2","/","2","0","2","6">> >>,
       << <<"A","p","p","l","i","c","a","n","t"," ","N","a","m","e",":">>, <<"B","y","r","n","e">> >> >>,
    << << <<"P","l","a","n","n","i","n","g"," ","S","t","a","t","u","s",":">>, <<"N","E","W"," ","A","P","P","L","I","C","A","T","I","O","N">> >>,
       << <<"F","u","r","t","h","e","r"," ","I","n","f","o"," ","R","e","q","u","e","s","t","e","d",":">>, <<"2","0","/","0","1","/","2","0","2","6">> >>,
       << <<"D","e","c","i","s","i","o","n"," ","D","a","t","e",":">>, <<"-">> >>,
       << <<"D","e","c","i","s","i","o","n"," ","T","y","p","e",":">>, <<"C","o","n","d","i","t","i","o","n","a","l">> >> >>,
    << << <<"D","e","c","i","s","i","o","n"," ","D","u","e"," ","D","a","t","e",":">>, <<"t","o"," ","b","e"," ","c","o","n","f","i","r","m","e","d">> >> >>,
    << << <<"F","u","r","t","h","e","r"," ","I","n","f","o"," ","R","e","q","u","e","s","t","e","d",":">>, <<"2","0","/","0","1","/","2","0","2","6">> >>,
       << <<"P","l","a","n","n","i","n","g"," ","S","t","a","t","u","s",":">>, <<"N","E","W"," ","A","P","P","L","I","C","A","T","I","O","N">> >> >> }

EPlanningPages ==
  [ title : EPlanningTitles, text : EPlanningTexts, rows : EPlanningRows ]

(* Everything the network can do during one EPlanningPortalScraper call. *)
EPlanningEnvs ==
  [ http : {"ok", "transport_error", "http_error"}, html : EPlanningPages ]

(* ---------------------------------------------------------------------- *)
(* Inputs of the normaliser                                               *)
(* ---------------------------------------------------------------------- *)

(* Longest run of blanks put before and after a raw status. *)
MaxPad ==
  1

(* Status texts that no portal vocabulary entry is written for. *)
OtherStatusTexts ==
  { <<"p","e","n","d","i","n","g">>,
    <<"a","p","p","e","a","l"," ","l","o","d","g","e","d">>,
    <<"S","o","m","e"," ","U","n","m","a","p","p","e","d"," ","S","t","a","t","u","s">>,
    <<"g","r","a","n","t","e","d"," ","w","i","t","h"," ","c","o","n","d","i","t","i","o","n","s">>,
    <<"a","p","p","l","i","c","a","t","i","o","n"," ","w","i","t","h","d","r","a","w","n">>,
    <<"r","e","n","e","w","a","l">>,
    <<"C","o","n","d","i","t","i","o","n","a","l">> }

Blanks(n) ==
  [i \in 1..n |-> " "]

(* Raw status texts a portal may show: a vocabulary entry or another text,
   in the given case or in capitals, with blanks around it; "" and None. *)
RawStatuses ==
  LET cores == {STATUS_MAP[i][1] : i \in 1..Len(STATUS_MAP)} \cup OtherStatusTexts
      cased == cores \cup {upper(c) : c \in cores}
  IN  {NULL, << >>}
      \cup {Blanks(l) \o c \o Blanks(t) : l \in 0..MaxPad, t \in 0..MaxPad, c \in cased}
      \cup {Blanks(n) : n \in 1..(MaxPad + 1)}

(* ---------------------------------------------------------------------- *)
(* Portal registry and tracked applications                               *)
(* ---------------------------------------------------------------------- *)

(* PORTAL_REGISTRY, the registry of a scraper built without argument.  Of a
   portal config the orchestrator reads "type" and "base_url". *)
PORTAL_REGISTRY ==
  ( "Cork County Council" :>
      [ primary  |-> [type |-> "agile", base_url |-> "https://planning.agileapplications.ie/corkcoco"],
        fallback |-> NullDict ] )
  @@
  ( "Cork City Council" :>
      [ primary  |-> [type |-> "agile", base_url |-> "https://planning.agileapplications.ie/corkcity"],
        fallback |-> NullDict ] )
  @@
  ( "Limerick City & County Council" :>
      [ primary  |-> [type |-> "eplanning", base_url |-> "https://www.eplanning.ie/LimerickCCC"],
        fallback |-> NullDict ] )

(* A registry passed to HWPPortalScraper(portal_registry): an authority in
   transition between the two portal systems (new portal first, legacy portal
   as fallback), an authority whose two portals are served from one base
   URL, and an authority on a portal system the scraper has no adapter for. *)
DualPortalRegistry ==
  ( "Cork County Council" :>
      [ primary  |-> [type |-> "agile", base_url |-> "https://planning.agileapplications.ie/corkcoco"],
        fallback |-> NullDict ] )
  @@
  ( "Limerick City & County Council" :>
      [ primary  |-> [type |-> "agile", base_url |-> "https://planning.agileapplications.ie/limerick"],
        fallback |-> [type |-> "eplanning", base_url |-> "https://www.eplanning.ie/LimerickCCC"] ] )
  @@
  ( "Clare County Council" :>
      [ primary  |-> [type |-> "agile", base_url |-> "https://planning.clarecoco.ie"],
        fallback |-> [type |-> "eplanning", base_url |-> "https://planning.clarecoco.ie"] ] )
  @@
  ( "Kerry County Council" :>
      [ primary  |-> [type |-> "idox", base_url |-> "https://planning.kerrycoco.ie"],
        fallback |-> NullDict ] )

Registries ==
  { PORTAL_REGISTRY, DualPortalRegistry }

(* Which of the optional imports succeeded. *)
Dependencies ==
  { [HAS_PLAYWRIGHT |-> TRUE,  HAS_REQUESTS |-> TRUE,  HAS_BS4 |-> TRUE],
    [HAS_PLAYWRIGHT |-> FALSE, HAS_REQUESTS |-> TRUE,  HAS_BS4 |-> TRUE],
    [HAS_PLAYWRIGHT |-> TRUE,  HAS_REQUESTS |-> FALSE, HAS_BS4 |-> TRUE],
    [HAS_PLAYWRIGHT |-> TRUE,  HAS_REQUESTS |-> TRUE,  HAS_BS4 |-> FALSE] }

(* Tracked applications: dicts with at least auth, ref and status.  The
   first two are entries of DEFAULT_APPLICATIONS; the third carries the
   fields the dashboard already knows; the last two belong to authorities
   that PORTAL_REGISTRY does not list. *)
TrackedApplications ==
  { [auth |-> "Cork County Council", ref |-> <<"2","5","/","6","7","9","6">>,
     project |-> <<"C","o","b","h"," ","A","p","a","r","t","m","e","n","t"," ","C","o","n","v","e","r","s","i","o","n">>, status |-> FurtherInformationRequested],
    [auth |-> "Limerick City & County Council", ref |-> <<"2","5","6","1","3","3","9">>,
     project |-> <<"L","i","m","e","r","i","c","k"," ","R","e","t","e","n","t","i","o","n">>, status |-> NewApplication],
    [auth |-> "Limerick City & County Council", ref |-> <<"2","5","6","1","3","3","9">>,
     project |-> <<"L","i","m","e","r","i","c","k"," ","R","e","t","e","n","t","i","o","n">>, status |-> NewApplication,
     client |-> <<"B","y","r","n","e">>, decDue |-> <<"2","0","2","6","-","0","2","-","1","8">>, decisionOutcome |-> NULL],
    [auth |-> "Clare County Council", ref |-> <<"2","5","/","6","7","9","6">>,
     project |-> <<"E","n","n","i","s"," ","I","n","f","i","l","l">>, status |-> NewApplication],
    [auth |-> "Kerry County Council", ref |-> <<"2","5","/","6","7","9","6">>,
     project |-> <<"T","r","a","l","e","e"," ","D","e","p","o","t">>, status |-> NewApplication] }

(* Longest list of applications handed to check_all. *)
MaxApps ==
  2

ApplicationLists ==
  UNION { [1..n -> TrackedApplications] : n \in 0..MaxApps }

(* The portal configs of all registries. *)
PortalConfigs ==
  UNION { UNION { {r[a].primary, r[a].fallback} \ {NullDict} : a \in DOMAIN r }
          : r \in Registries }

(* What a portal can answer to scrape_application(ref): the adapter's return
   value over everything the browser or the network can do. *)
AgileAnswers ==
  [ b \in {c.base_url : c \in PortalConfigs}, ref \in Refs |->
      { Agile_scrape_application(b, ref, env) : env \in AgileEnvs } ]

EPlanningAnswers ==
  [ ref \in Refs |-> { EPlanning_scrape_application(ref, env) : env \in EPlanningEnvs } ]

(* ---------------------------------------------------------------------- *)
(* HWPPortalScraper                                                       *)
(* ---------------------------------------------------------------------- *)
(* The orchestrator object is a record o:                                 *)
(*   _scrapers    base_url -> adapter instance; an instance is            *)
(*                [kind, base_url, page] (AgilePortalScraper, page "None" *)
(*                or "open") or [kind, base_url, session]                 *)
(*                (EPlanningPortalScraper)                                *)
(*   _playwright  "None", "started" or "stopped"                          *)
(*   _browser     "None", "open" or "closed"                              *)
(* and three records of what it did: created (adapter instances built,    *)
(* in order), launches (browsers launched) and open (resources held).     *)

(* HWPPortalScraper.__init__ *)
NewOrchestrator ==
  [ _scrapers |-> EmptyDict, _playwright |-> "None", _browser |-> "None",
    created |-> << >>, launches |-> 0, open |-> {} ]

(* HWPPortalScraper._start_browser: [ok, o]. *)
_start_browser(o, deps) ==
  IF ~deps.HAS_PLAYWRIGHT THEN [ok |-> FALSE, o |-> o]
  ELSE IF o._browser = "None"
    THEN [ok |-> TRUE,
          o  |-> [o EXCEPT !._playwright = "started",
                           !._browser = "open",
                           !.launches = @ + 1,
                           !.open = @ \cup {<<"playwright">>, <<"browser">>}]]
  ELSE [ok |-> TRUE, o |-> o]

(* HWPPortalScraper._get_scraper: [scraper, raised, o], where scraper is
   the key of the instance in o._scrapers, or "None". *)
_get_scraper(o, deps, portal_config) ==
  LET key == portal_config.base_url
  IN  IF key \in DOMAIN o._scrapers
        THEN [scraper |-> key, raised |-> FALSE, o |-> o]
      ELSE IF portal_config.type = "agile"
        THEN LET sb == _start_browser(o, deps)
             IN  IF ~sb.ok
                   THEN [scraper |-> "None", raised |-> FALSE, o |-> sb.o]
                   ELSE [scraper |-> key, raised |-> FALSE,
                         o |-> [sb.o EXCEPT
                                  !._scrapers = set(@, key, [kind |-> "agile", base_url |-> key, page |-> "None"]),
                                  !.created = Append(@, <<key, "agile">>)]]
      ELSE IF portal_config.type = "eplanning"
        THEN IF ~deps.HAS_REQUESTS \/ ~deps.HAS_BS4
               THEN [scraper |-> "None", raised |-> FALSE, o |-> o]
               ELSE [scraper |-> key, raised |-> FALSE,
                     o |-> [o EXCEPT
                              !._scrapers = set(@, key, [kind |-> "eplanning", base_url |-> key, session |-> "open"]),
                              !.created = Append(@, <<key, "eplanning">>),
                              !.open = @ \cup {<<"session", key>>}]]
      ELSE [scraper |-> "None", raised |-> TRUE, o |-> o]

(* AgilePortalScraper._ensure_page, on the instance under key. *)
_ensure_page(o, key) ==
  IF o._scrapers[key].kind = "agile" /\ o._scrapers[key].page = "None"
    THEN [o EXCEPT !._scrapers = set(@, key, [@[key] EXCEPT !.page = "open"]),
                   !.open = @ \cup {<<"page", key>>}]
    ELSE o

(* scraper.scrape_application(ref) on the instance under key: every value
   the call can return. *)
scrape_application(o, key, ref) ==
  IF o._scrapers[key].kind = "agile"
    THEN AgileAnswers[o._scrapers[key].base_url, ref]
    ELSE EPlanningAnswers[ref]

(* One of the two blocks of check_application ("Try primary portal", "Try
   fallback portal") for the config of the given role: every outcome
   [result, raised, o, calls].  result is the tagged record the block
   returns, or NullDict when the block falls through; calls lists the
   adapter calls made. *)
try_portal(o, deps, portal_config, ref, role) ==
  IF ~DictTruthy(portal_config)
    THEN { [result |-> NullDict, raised |-> FALSE, o |-> o, calls |-> << >>] }
  ELSE LET g == _get_scraper(o, deps, portal_config)
       IN  IF g.raised
             THEN { [result |-> NullDict, raised |-> TRUE, o |-> g.o, calls |-> << >>] }
           ELSE IF g.scraper = "None"
             THEN { [result |-> NullDict, raised |-> FALSE, o |-> g.o, calls |-> << >>] }
           ELSE { [ result |-> IF DictTruthy(r)
                                 THEN set(set(r, "source", portal_config.base_url),
                                          "portal_type", portal_config.type)
                                 ELSE NullDict,
                    raised |-> FALSE,
                    o      |-> _ensure_page(g.o, g.scraper),
                    calls  |-> << [ role     |-> role,
                                    config   |-> portal_config,
                                    adapter  |-> g.o._scrapers[g.scraper].kind,
                                    returned |-> r ] >> ]
                  : r \in scrape_application(g.o, g.scraper, ref) }

(* check_application that, after a record from the primary portal, asks the
   fallback portal as well and lays the primary record over its answer. *)
check_application_merge(o, deps, reg, auth, ref) ==
  IF auth \notin DOMAIN reg
    THEN { [result |-> NullDict, raised |-> FALSE, o |-> o, calls |-> << >>] }
  ELSE LET entry == reg[auth]
       IN  UNION { IF p.raised
                     THEN { p }
                     ELSE { [f EXCEPT !.calls = p.calls \o @,
                                      !.result = IF DictTruthy(p.result) /\ DictTruthy(@)
                                                   THEN update(@, p.result)
                                                   ELSE IF DictTruthy(p.result) THEN p.result ELSE @]
                            : f \in try_portal(p.o, deps, entry.fallback, ref, "fallback") }
                   : p \in try_portal(o, deps, entry.primary, ref, "primary") }

(* check_application that tags a record of the fallback portal with the
   primary config. *)
check_application_primary_tag(o, deps, reg, auth, ref) ==
  IF auth \notin DOMAIN reg
    THEN { [result |-> NullDict, raised |-> FALSE, o |-> o, calls |-> << >>] }
  ELSE LET entry == reg[auth]
       IN  UNION { IF p.raised \/ DictTruthy(p.result)
                     THEN { p }
                     ELSE { [f EXCEPT !.calls = p.calls \o @,
                                      !.result = IF DictTruthy(@) /\ DictTruthy(entry.primary)
                                                   THEN set(set(@, "source", entry.primary.base_url),
                                                            "portal_type", entry.primary.type)
                                                   ELSE @]
                            : f \in try_portal(p.o, deps, entry.fallback, ref, "fallback") }
                   : p \in try_portal(o, deps, entry.primary, ref, "primary") }

(* HWPPortalScraper.check_application: every outcome [result, raised, o,
   calls]; raised says that ValueError left the method. *)
check_application(o, deps, reg, auth, ref) ==
  IF auth \notin DOMAIN reg
    THEN { [result |-> NullDict, raised |-> FALSE, o |-> o, calls |-> << >>] }
  ELSE LET entry == reg[auth]
       IN  UNION { IF p.raised \/ DictTruthy(p.result)
                     THEN { p }
                     ELSE { [f EXCEPT !.calls = p.calls \o @]
                            : f \in try_portal(p.o, deps, entry.fallback, ref, "fallback") }
                   : p \in try_portal(o, deps, entry.primary, ref, "primary") }

(* The fields check_all compares besides status. *)
ComparedFields ==
  <<"decDue", "decDate", "grantDate", "client", "decisionOutcome", "subDue">>

(* changes_of without the test that the new value is present. *)
changes_of_any_difference(app, portal_data) ==
  LET current_status == get_default(app, "status", << >>)
      new_status     == get(portal_data, "status")
      status_change  ==
        IF new_status # current_status
          THEN ("status" :> [old |-> current_status, new |-> new_status])
          ELSE EmptyDict
      changed == {i \in 1..Len(ComparedFields) :
                    get(portal_data, ComparedFields[i]) # get(app, ComparedFields[i])}
  IN  [f \in {ComparedFields[i] : i \in changed} |->
         [old |-> get(app, f), new |-> get(portal_data, f)]]
      @@ status_change

(* The changes dict check_all builds for one application. *)
changes_of(app, portal_data) ==
  LET current_status == get_default(app, "status", << >>)
      new_status     == get(portal_data, "status")
      status_change  ==
        IF Truthy(new_status) /\ new_status # current_status
          THEN ("status" :> [old |-> current_status, new |-> new_status])
          ELSE EmptyDict
      changed == {i \in 1..Len(ComparedFields) :
                    /\ Truthy(get(portal_data, ComparedFields[i]))
                    /\ get(portal_data, ComparedFields[i]) # get(app, ComparedFields[i])}
  IN  [f \in {ComparedFields[i] : i \in changed} |->
         [old |-> get(app, f), new |-> get(portal_data, f)]]
      @@ status_change

(* outcome_of whose failed outcome carries an empty change set. *)
outcome_of_failed_with_changes(app, portal_data) ==
  IF portal_data = NullDict
    THEN update(app, [_scrape_status |-> "failed",
                      _error |-> "Could not fetch from any portal",
                      _changes |-> EmptyDict,
                      _has_changes |-> FALSE])
    ELSE LET changes == changes_of(app, portal_data)
         IN  update(app, [_scrape_status |-> "success",
                          _portal_data   |-> portal_data,
                          _changes       |-> changes,
                          _has_changes   |-> Cardinality(DOMAIN changes) > 0,
                          _source        |-> get_default(portal_data, "source", "")])

(* outcome_of that flags a change whenever the portal's raw status text is
   not the tracked status. *)
outcome_of_raw_status(app, portal_data) ==
  IF portal_data = NullDict
    THEN update(app, [_scrape_status |-> "failed",
                      _error |-> "Could not fetch from any portal"])
    ELSE LET changes == changes_of(app, portal_data)
         IN  update(app, [_scrape_status |-> "success",
                          _portal_data   |-> portal_data,
                          _changes       |-> changes,
                          _has_changes   |-> \/ Cardinality(DOMAIN changes) > 0
                                             \/ get(portal_data, "raw_status") # get(app, "status"),
                          _source        |-> get_default(portal_data, "source", "")])

(* The dict check_all appends to results for one application. *)
outcome_of(app, portal_data) ==
  IF portal_data = NullDict
    THEN update(app, [_scrape_status |-> "failed",
                      _error |-> "Could not fetch from any portal"])
    ELSE LET changes == changes_of(app, portal_data)
         IN  update(app, [_scrape_status |-> "success",
                          _portal_data   |-> portal_data,
                          _changes       |-> changes,
                          _has_changes   |-> Cardinality(DOMAIN changes) > 0,
                          _source        |-> get_default(portal_data, "source", "")])

(* HWPPortalScraper.close *)
close(o) ==
  LET pages == {<<"page", k>> : k \in {k \in DOMAIN o._scrapers :
                                          /\ o._scrapers[k].kind = "agile"
                                          /\ o._scrapers[k].page # "None"}}
  IN  [o EXCEPT
         !._scrapers = [k \in DOMAIN @ |->
                          IF @[k].kind = "agile" THEN [@[k] EXCEPT !.page = "None"] ELSE @[k]],
         !._browser = IF @ # "None" THEN "closed" ELSE @,
         !._playwright = IF @ # "None" THEN "stopped" ELSE @,
         !.open = (@ \ pages)
                  \ ((IF o._browser # "None" THEN {<<"browser">>} ELSE {})
                     \cup (IF o._playwright # "None" THEN {<<"playwright">>} ELSE {}))]

(* ---------------------------------------------------------------------- *)
(* State                                                                  *)
(* ---------------------------------------------------------------------- *)

VARIABLES
  pc,            \* position of the run
  registry,      \* the scraper's portal registry
  deps,          \* which optional imports succeeded
  applications,  \* the list handed to check_all
  idx,           \* number of applications check_all has finished
  results,       \* the list check_all builds
  scraper,       \* the HWPPortalScraper object of main
  exc,           \* the exception travelling up through main, or "None"
  last,          \* the latest check_application: its arguments, outcome and adapter calls
  first_results, \* what an earlier check_all on the same object returned
  first_calls,   \* what the adapters returned during it, per application
  index_html,    \* update_dashboard.py: the text of the file index.html
  main_html,     \* the local variable html of update_dashboard.main
  commit_lines,  \* the list commit_lines of update_dashboard.main
  first_index_html, \* index.html as an earlier run of update_dashboard.py left it
  fn_in,         \* argument of a function evaluated on its own
  fn_out         \* its return value

(* The variables of update_dashboard.py. *)
patchVars ==
  << index_html, main_html, commit_lines, first_index_html >>

vars ==
  << pc, registry, deps, applications, idx, results, scraper, exc, last,
     first_results, first_calls, patchVars, fn_in, fn_out >>

runVars ==
  << registry, deps, applications, idx, results, scraper, exc, last,
     first_results, first_calls, patchVars >>

(* update_dashboard.py is not running. *)
NoPatch ==
  /\ index_html = << >>
  /\ main_html = << >>
  /\ commit_lines = << >>
  /\ first_index_html = NULL

(* No check_application has been made. *)
NoCall ==
  [auth |-> "", ref |-> << >>, result |-> NullDict, raised |-> FALSE, calls |-> << >>]

(* No run of main is under way. *)
NoRun ==
  /\ registry = PORTAL_REGISTRY
  /\ deps = [HAS_PLAYWRIGHT |-> TRUE, HAS_REQUESTS |-> TRUE, HAS_BS4 |-> TRUE]
  /\ applications = << >>
  /\ idx = 0
  /\ results = << >>
  /\ scraper = NewOrchestrator
  /\ exc = "None"
  /\ last = NoCall
  /\ first_results = << >>
  /\ first_calls = << >>
  /\ NoPatch

(* ---------------------------------------------------------------------- *)
(* main: check_all, output, close                                         *)
(* ---------------------------------------------------------------------- *)

Init ==
  /\ pc = "check_all"
  /\ registry \in Registries
  /\ deps \in Dependencies
  /\ applications \in ApplicationLists
  /\ idx = 0
  /\ results = << >>
  /\ scraper = NewOrchestrator
  /\ exc = "None"
  /\ last = NoCall
  /\ first_results = << >>
  /\ first_calls = << >>
  /\ NoPatch
  /\ fn_in = NULL
  /\ fn_out = NULL

(* One pass of the loop of check_all, leaving the loop at the first
   application that no portal answered. *)
CheckNext_stop_at_failure ==
  /\ pc = "check_all"
  /\ idx < Len(applications)
  /\ LET app  == applications[idx + 1]
         auth == get_default(app, "auth", "")
         ref  == get_default(app, "ref", << >>)
     IN  \E c \in check_application(scraper, deps, registry, auth, ref) :
           /\ scraper' = c.o
           /\ last' = [auth |-> auth, ref |-> ref, result |-> c.result,
                       raised |-> c.raised, calls |-> c.calls]
           /\ IF c.raised
                THEN /\ pc' = "finally"
                     /\ exc' = "ValueError"
                     /\ UNCHANGED << idx, results >>
                ELSE /\ results' = Append(results, outcome_of(app, c.result))
                     /\ idx' = idx + 1
                     /\ pc' = IF c.result = NullDict THEN "finally" ELSE pc
                     /\ UNCHANGED exc
  /\ UNCHANGED << registry, deps, applications, first_results, first_calls, patchVars, fn_in, fn_out >>

(* One pass of the loop of check_all. *)
CheckNext ==
  /\ pc = "check_all"
  /\ idx < Len(applications)
  /\ LET app  == applications[idx + 1]
         auth == get_default(app, "auth", "")
         ref  == get_default(app, "ref", << >>)
     IN  \E c \in check_application(scraper, deps, registry, auth, ref) :
           /\ scraper' = c.o
           /\ last' = [auth |-> auth, ref |-> ref, result |-> c.result,
                       raised |-> c.raised, calls |-> c.calls]
           /\ IF c.raised
                THEN /\ pc' = "finally"
                     /\ exc' = "ValueError"
                     /\ UNCHANGED << idx, results >>
                ELSE /\ results' = Append(results, outcome_of(app, c.result))
                     /\ idx' = idx + 1
                     /\ UNCHANGED << pc, exc >>
  /\ UNCHANGED << registry, deps, applications, first_results, first_calls, patchVars, fn_in, fn_out >>

(* check_all returns and main writes the output in the chosen format; the
   write to stdout or stderr may raise OSError. *)
Output ==
  /\ pc = "check_all"
  /\ idx = Len(applications)
  /\ \E written \in BOOLEAN : exc' = IF written THEN "None" ELSE "OSError"
  /\ pc' = "finally"
  /\ UNCHANGED << registry, deps, applications, idx, results, scraper, last,
                  first_results, first_calls, patchVars, fn_in, fn_out >>

(* The finally clause of main: scraper.close(). *)
Close ==
  /\ pc = "finally"
  /\ scraper' = close(scraper)
  /\ pc' = "exit"
  /\ UNCHANGED << registry, deps, applications, idx, results, exc, last,
                  first_results, first_calls, patchVars, fn_in, fn_out >>

Next ==
  \/ CheckNext
  \/ Output
  \/ Close

Spec ==
  Init /\ [][Next]_vars

(* ---------------------------------------------------------------------- *)
(* normalise_status on its own                                            *)
(* ---------------------------------------------------------------------- *)

InitNormalise ==
  /\ pc = "normalise_status"
  /\ fn_in \in RawStatuses
  /\ fn_out = NULL
  /\ NoRun

CallNormalise ==
  /\ pc = "normalise_status"
  /\ fn_out' = normalise_status(fn_in)
  /\ pc' = "normalise_status_returned"
  /\ UNCHANGED << fn_in, runVars >>

NextNormalise ==
  CallNormalise

SpecNormalise ==
  InitNormalise /\ [][NextNormalise]_vars

(* ---------------------------------------------------------------------- *)
(* The two adapters on their own                                          *)
(* ---------------------------------------------------------------------- *)

AnyBaseUrl ==
  "https://planning.agileapplications.ie/corkcoco"

InitAdapter ==
  /\ pc = "scrape_application"
  /\ fn_in \in [ kind : {"agile"}, ref : Refs, env : AgileEnvs ]
               \cup [ kind : {"eplanning"}, ref : Refs, env : EPlanningEnvs ]
  /\ fn_out = NullDict
  /\ NoRun

CallAgileScrape ==
  /\ pc = "scrape_application"
  /\ fn_in.kind = "agile"
  /\ fn_out' = Agile_scrape_application(AnyBaseUrl, fn_in.ref, fn_in.env)
  /\ pc' = "scrape_application_returned"
  /\ UNCHANGED << fn_in, runVars >>

CallEPlanningScrape ==
  /\ pc = "scrape_application"
  /\ fn_in.kind = "eplanning"
  /\ fn_out' = EPlanning_scrape_application(fn_in.ref, fn_in.env)
  /\ pc' = "scrape_application_returned"
  /\ UNCHANGED << fn_in, runVars >>

NextAdapter ==
  \/ CallAgileScrape
  \/ CallEPlanningScrape

SpecAdapter ==
  InitAdapter /\ [][NextAdapter]_vars

(* ---------------------------------------------------------------------- *)
(* Properties of normalise_status (SpecNormalise)                         *)
(* ---------------------------------------------------------------------- *)

CanonicalStatuses ==
  {NewApplication, FurtherInformationRequested, DecisionMade, FinalGrantIssued, Invalid}

(* C10: normalise_status returns None for None and for "".  For any other
   input it returns the value written beside the first key of the table, in
   table order, that occurs in the trimmed lower-cased input, and the trimmed
   input in its original case when no key occurs in it; so the result is one
   of the five dashboard statuses or the trimmed input itself. *)
C10_NormaliseStatus ==
  pc = "normalise_status_returned" =>
    IF fn_in = NULL \/ fn_in = << >>
      THEN fn_out = NULL
      ELSE LET cleaned  == lower(strip(fn_in))
               matching == {i \in 1..Len(STATUS_MAP) : contains(STATUS_MAP[i][1], cleaned)}
           IN  /\ matching = {} => fn_out = strip(fn_in)
               /\ matching # {} =>
                    \E i \in matching : /\ \A j \in matching : i <= j
                                        /\ fn_out = STATUS_MAP[i][2]
               /\ fn_out \in CanonicalStatuses \cup {strip(fn_in)}

(* C10 witness: an input in which several keys occur and the earlier one
   ("grant", before "grant with conditions") decided the result. *)
C10_Witness ==
  /\ pc = "normalise_status_returned"
  /\ contains(STATUS_MAP[8][1], lower(strip(fn_in)))
  /\ fn_in # lower(fn_in)
  /\ fn_out = FinalGrantIssued

(* ---------------------------------------------------------------------- *)
(* Properties of the adapters (SpecAdapter)                               *)
(* ---------------------------------------------------------------------- *)

(* The search step of the Agile adapter failed: load or render timeout,
   extraction error, no row, error marker, or a row of another reference. *)
AgileSearchFailed(in) ==
  /\ in.kind = "agile"
  /\ \/ in.env.search # "ok"
     \/ in.env.search_eval # "ok"
     \/ ~DictTruthy(in.env.row_data)
     \/ "error" \in DOMAIN in.env.row_data
     \/ get(in.env.row_data, "reference") # in.ref

(* The search step succeeded and the detail step of the Agile adapter
   failed: load or render timeout, extraction error, or no label read. *)
AgileDetailFailed(in) ==
  /\ in.kind = "agile"
  /\ ~AgileSearchFailed(in)
  /\ Truthy(get(in.env.row_data, "id"))
  /\ \/ in.env.detail_load # "ok"
     \/ in.env.detail_eval # "ok"
     \/ in.env.detail_data = << >>

(* The request of the ePlanning adapter failed: transport error, HTTP error
   status, a page whose title cannot be read, or a page without data rows. *)
EPlanningFailed(in) ==
  /\ in.kind = "eplanning"
  /\ \/ in.env.http # "ok"
     \/ error_page_test(in.env.html) = "raise"
     \/ in.env.html.rows = << >>

(* Keys of the record the Agile adapter builds from the search row alone. *)
AgileSearchKeys ==
  {"ref", "status", "raw_status", "client", "agent", "proposal", "location",
   "regDate", "decDate", "grantDate", "decisionOutcome", "agile_id", "detail_url"}

(* C9 as stated: scrape_application of either adapter never raises, and
   every expected failure (load or wait timeout, transport or HTTP error,
   missing data, not found), on any page the adapter visits, gives None. *)
C9_AsStated ==
  pc = "scrape_application_returned" =>
    /\ fn_out # Raised
    /\ (AgileSearchFailed(fn_in) \/ AgileDetailFailed(fn_in) \/ EPlanningFailed(fn_in))
         => fn_out = NullDict

(* C9 amended: scrape_application of either adapter never raises; a failure
   of the Agile search step or of the ePlanning request gives None; a
   failure of the Agile detail step does not give None but the record built
   from the search row, without any field of the detail page. *)
C9_AdapterFailures ==
  pc = "scrape_application_returned" =>
    /\ fn_out # Raised
    /\ (AgileSearchFailed(fn_in) \/ EPlanningFailed(fn_in)) => fn_out = NullDict
    /\ AgileDetailFailed(fn_in) =>
         /\ fn_out # NullDict
         /\ DOMAIN fn_out = AgileSearchKeys
         /\ fn_out.status = normalise_status(get(fn_in.env.row_data, "status"))

(* C9 witness: the detail page of a found application timed out and the
   adapter returned the search record. *)
C9_Witness ==
  /\ pc = "scrape_application_returned"
  /\ AgileDetailFailed(fn_in)
  /\ fn_in.env.detail_load = "timeout"
  /\ fn_out # NullDict

(* ---------------------------------------------------------------------- *)
(* Properties of a run of main (Spec)                                     *)
(* ---------------------------------------------------------------------- *)

(* The record r tagged with a portal config's base URL and type. *)
Tagged(r, portal_config) ==
  set(set(r, "source", portal_config.base_url), "portal_type", portal_config.type)

(* Outcome i is a success outcome. *)
IsSuccess(i) ==
  results[i]._scrape_status = "success"

(* C1: when the primary adapter returns a record, check_application returns
   that record, tagged with the primary config's base URL and portal type;
   the fallback adapter is not called and no field comes from it. *)
C1_PrimaryWins ==
  ( /\ last.calls # << >>
    /\ last.calls[1].role = "primary"
    /\ last.calls[1].returned # NullDict )
  => /\ Len(last.calls) = 1
     /\ ~last.raised
     /\ last.calls[1].config = registry[last.auth].primary
     /\ last.result = Tagged(last.calls[1].returned, registry[last.auth].primary)

(* C1 witness: the primary adapter of an authority that has a fallback
   portal returned a record, and check_application returned it. *)
C1_Witness ==
  /\ last.calls # << >>
  /\ last.calls[1].role = "primary"
  /\ last.calls[1].returned # NullDict
  /\ registry[last.auth].fallback # NullDict
  /\ last.result.source = registry[last.auth].primary.base_url

(* C2: when the primary adapter returns None and the adapter of the
   fallback config returns a record, check_application returns the fallback's
   record tagged with the fallback config's base URL and portal type, with
   nothing of the primary in it. *)
C2_FallbackRecord ==
  ( /\ Len(last.calls) = 2
    /\ last.calls[1].role = "primary"
    /\ last.calls[1].returned = NullDict
    /\ last.calls[2].role = "fallback"
    /\ last.calls[2].returned # NullDict )
  => /\ ~last.raised
     /\ last.calls[2].config = registry[last.auth].fallback
     /\ last.result = Tagged(last.calls[2].returned, registry[last.auth].fallback)
     /\ last.result.source = registry[last.auth].fallback.base_url
     /\ last.result.portal_type = registry[last.auth].fallback.type

(* C2 witness: the primary adapter returned None, the fallback adapter a
   record, and that record came back with the fallback's base URL. *)
C2_Witness ==
  /\ Len(last.calls) = 2
  /\ last.calls[1].returned = NullDict
  /\ last.calls[2].returned # NullDict
  /\ last.result # NullDict
  /\ last.result.source = "https://www.eplanning.ie/LimerickCCC"
  /\ last.result.source # registry[last.auth].primary.base_url

(* The primary adapter returned None, and so did the fallback adapter where
   the authority has a fallback config. *)
AllPortalsNull ==
  /\ last.calls # << >>
  /\ last.calls[1].role = "primary"
  /\ last.calls[1].returned = NullDict
  /\ \/ registry[last.auth].fallback = NullDict
     \/ /\ Len(last.calls) = 2
        /\ last.calls[2].returned = NullDict

(* C3: when the primary adapter and the fallback adapter return None, or
   the primary does and there is no fallback, check_application returns None
   and check_all appends for the application an outcome with scrape status
   "failed" and without a change set. *)
C3_BothNullFailed ==
  AllPortalsNull
  => /\ ~last.raised
     /\ last.result = NullDict
     /\ idx >= 1
     /\ results[idx]._scrape_status = "failed"
     /\ "_changes" \notin DOMAIN results[idx]
     /\ "_portal_data" \notin DOMAIN results[idx]
     /\ results[idx].ref = last.ref

(* C3 witness: both adapters were called, both returned None, and the
   outcome of the application is a failed one. *)
C3_Witness ==
  /\ Len(last.calls) = 2
  /\ last.calls[1].returned = NullDict
  /\ last.calls[2].returned = NullDict
  /\ results[idx]._scrape_status = "failed"

(* The outcomes built so far stand for the first applications of the input,
   one each, in input order. *)
OutcomesFollowInput ==
  /\ Len(results) = idx
  /\ idx <= Len(applications)
  /\ \A i \in 1..idx :
       /\ DOMAIN applications[i] \subseteq DOMAIN results[i]
       /\ \A k \in DOMAIN applications[i] : results[i][k] = applications[i][k]

(* C4 as stated: check_all never stops early; for every input list every
   application is attempted and there is exactly one outcome per input
   application, in input order. *)
C4_AsStated ==
  /\ OutcomesFollowInput
  /\ pc \in {"finally", "exit"} => idx = Len(applications)

(* C4 amended: check_all never stops at an application that no portal
   answered; every application is attempted and there is exactly one outcome
   per input application, in input order, duplicates included, unless
   check_application reaches a portal config whose type is neither "agile"
   nor "eplanning": then ValueError leaves check_all at that application and
   the applications after it are not attempted. *)
C4_BatchNotAborted ==
  /\ OutcomesFollowInput
  /\ (pc \in {"finally", "exit"} /\ exc # "ValueError") => idx = Len(applications)
  /\ exc = "ValueError" =>
       /\ last.raised
       /\ idx < Len(applications)
       /\ applications[idx + 1].auth \in DOMAIN registry
       /\ \E c \in {registry[applications[idx + 1].auth].primary,
                    registry[applications[idx + 1].auth].fallback} \ {NullDict} :
            c.type \notin {"agile", "eplanning"}

(* C4 witness: the same application twice in the input; the first attempt
   failed, the second was made all the same and succeeded. *)
C4_Witness ==
  /\ pc = "exit"
  /\ exc = "None"
  /\ Len(applications) >= 2
  /\ applications[1] = applications[2]
  /\ results[1]._scrape_status = "failed"
  /\ results[2]._scrape_status = "success"

(* C5: in every success outcome, each of status, decDue, decDate,
   grantDate, client, decisionOutcome and subDue is in the change set exactly
   when the scraped value is present (not None, not "") and differs from the
   tracked application's value, and its entry holds the tracked value as old
   and the scraped value as new. *)
C5_ChangeSet ==
  \A i \in 1..Len(results) :
    IsSuccess(i) =>
      /\ DOMAIN results[i]._changes
           \subseteq {"status"} \cup {ComparedFields[k] : k \in 1..Len(ComparedFields)}
      /\ \A f \in {"status"} \cup {ComparedFields[k] : k \in 1..Len(ComparedFields)} :
           LET old == get(applications[i], f)
               new == get(results[i]._portal_data, f)
           IN  /\ f \in DOMAIN results[i]._changes
                    <=> (new # NULL /\ new # << >> /\ new # old)
               /\ f \in DOMAIN results[i]._changes
                    => results[i]._changes[f] = [old |-> old, new |-> new]

(* C5 witness: a success outcome whose record has an empty decision outcome
   and no decision-due date, neither reported, and a client that differs from
   the tracked one, reported. *)
C5_Witness ==
  \E i \in 1..Len(results) :
    /\ IsSuccess(i)
    /\ get(results[i]._portal_data, "decisionOutcome") = << >>
    /\ "decisionOutcome" \notin DOMAIN results[i]._changes
    /\ get(results[i]._portal_data, "decDue") = NULL
    /\ "decDue" \notin DOMAIN results[i]._changes
    /\ "client" \in DOMAIN results[i]._changes

(* C6: in every success outcome _has_changes is true exactly when the
   change set is not empty; when the record's status is the tracked status
   and no other compared field differs, _has_changes is false. *)
C6_HasChanges ==
  \A i \in 1..Len(results) :
    IsSuccess(i) =>
      /\ results[i]._has_changes <=> (DOMAIN results[i]._changes # {})
      /\ ( /\ get(results[i]._portal_data, "status") = get(applications[i], "status")
           /\ \A k \in 1..Len(ComparedFields) :
                get(results[i]._portal_data, ComparedFields[k])
                  = get(applications[i], ComparedFields[k]) )
         => ~results[i]._has_changes

(* C6 witness: a success outcome whose record agrees with the tracked
   application in status, client and decision-due date, flagged unchanged
   although the raw status text is not the tracked status. *)
C6_Witness ==
  \E i \in 1..Len(results) :
    /\ IsSuccess(i)
    /\ get(results[i]._portal_data, "status") = get(applications[i], "status")
    /\ get(results[i]._portal_data, "raw_status") # get(applications[i], "status")
    /\ get(results[i]._portal_data, "client") = get(applications[i], "client")
    /\ get(applications[i], "client") # NULL
    /\ ~results[i]._has_changes

(* C7 as stated: when main is done, on every path, every resource acquired
   during the run (adapter pages and HTTP sessions, the browser, the
   Playwright driver) has been released by close(). *)
C7_AllReleased ==
  pc = "exit" => scraper.open = {}

(* C8 as stated: in one run at most one adapter instance is created per
   base URL, at most one browser is launched, and the adapter called for a
   portal config is of that config's type. *)
C8_OneAdapterOfConfigKind ==
  /\ \A i, j \in 1..Len(scraper.created) :
       scraper.created[i][1] = scraper.created[j][1] => i = j
  /\ scraper.launches <= 1
  /\ \A k \in 1..Len(last.calls) : last.calls[k].adapter = last.calls[k].config.type

(* ---------------------------------------------------------------------- *)
(* Configuration failures (Spec)                                          *)
(* ---------------------------------------------------------------------- *)

(* The portal config lacks what its adapter needs: the import that
   _get_scraper tests before it builds the adapter failed. *)
MissingDependency(portal_config) ==
  \/ portal_config.type = "agile" /\ ~deps.HAS_PLAYWRIGHT
  \/ portal_config.type = "eplanning" /\ (~deps.HAS_REQUESTS \/ ~deps.HAS_BS4)

(* The application cannot be looked up for a reason of configuration: its
   authority is not in the registry, or the authority's only portal is of
   an unknown type or lacks its dependency. *)
ConfigurationFailure(app) ==
  \/ app.auth \notin DOMAIN registry
  \/ /\ app.auth \in DOMAIN registry
     /\ registry[app.auth].fallback = NullDict
     /\ \/ registry[app.auth].primary.type \notin {"agile", "eplanning"}
        \/ MissingDependency(registry[app.auth].primary)

(* C11 as stated: a configuration failure (unknown authority, unknown
   portal type, missing dependency) is surfaced as an explicit error that
   aborts, and is never recorded as the failed outcome of an application,
   which is what a scrape failure gives. *)
C11_ConfigFailureExplicit ==
  \A i \in 1..Len(results) :
    ConfigurationFailure(applications[i]) => results[i]._scrape_status # "failed"

(* ---------------------------------------------------------------------- *)
(* check_all called twice on one HWPPortalScraper                         *)
(* ---------------------------------------------------------------------- *)

(* The imports of a machine that runs check_all twice: everything installed,
   or everything but playwright. *)
RerunDependencies ==
  { d \in Dependencies : d.HAS_REQUESTS /\ d.HAS_BS4 }

InitRerun ==
  /\ pc = "check_all"
  /\ registry \in Registries
  /\ deps \in RerunDependencies
  /\ applications \in ApplicationLists
  /\ idx = 0
  /\ results = << >>
  /\ scraper = NewOrchestrator
  /\ exc = "None"
  /\ last = NoCall
  /\ first_results = << >>
  /\ first_calls = << >>
  /\ NoPatch
  /\ fn_in = NULL
  /\ fn_out = NULL

(* What the adapters returned during one check_application, call by call:
   << key of the adapter instance in _scrapers, return value >>. *)
returned_of(calls) ==
  [k \in 1..Len(calls) |-> << calls[k].config.base_url, calls[k].returned >>]

(* The answers of the adapter instance under key, in order. *)
answers_of(answers, key) ==
  SelectSeq(answers, LAMBDA a : a[1] = key)

(* Every adapter instance asked in again was asked in before, and answers
   as it did then: call by call, and as in its last call when it is asked
   more often than before. *)
same_answers(before, again) ==
  \A k \in 1..Len(again) :
    LET b == answers_of(before, again[k][1])
        a == answers_of(again, again[k][1])
    IN  /\ Len(b) > 0
        /\ \A n \in 1..Len(a) : a[n] = b[IF n <= Len(b) THEN n ELSE Len(b)]

(* One pass of the loop of the first check_all, with app.update(portal_data)
   added: the scraped values are written into the tracked application. *)
CheckFirst_update_tracked ==
  /\ pc = "check_all"
  /\ idx < Len(applications)
  /\ LET app  == applications[idx + 1]
         auth == get_default(app, "auth", "")
         ref  == get_default(app, "ref", << >>)
     IN  \E c \in check_application(scraper, deps, registry, auth, ref) :
           /\ scraper' = c.o
           /\ last' = [auth |-> auth, ref |-> ref, result |-> c.result,
                       raised |-> c.raised, calls |-> c.calls]
           /\ IF c.raised
                THEN /\ pc' = "finally"
                     /\ exc' = "ValueError"
                     /\ UNCHANGED << idx, results, first_calls, applications >>
                ELSE /\ results' = Append(results, outcome_of(app, c.result))
                     /\ first_calls' = Append(first_calls, returned_of(c.calls))
                     /\ applications' = [applications EXCEPT ![idx + 1] =
                                           IF c.result = NullDict THEN @ ELSE update(@, c.result)]
                     /\ idx' = idx + 1
                     /\ UNCHANGED << pc, exc >>
  /\ UNCHANGED << registry, deps, first_results, patchVars, fn_in, fn_out >>

(* One pass of the loop of the first check_all. *)
CheckFirst ==
  /\ pc = "check_all"
  /\ idx < Len(applications)
  /\ LET app  == applications[idx + 1]
         auth == get_default(app, "auth", "")
         ref  == get_default(app, "ref", << >>)
     IN  \E c \in check_application(scraper, deps, registry, auth, ref) :
           /\ scraper' = c.o
           /\ last' = [auth |-> auth, ref |-> ref, result |-> c.result,
                       raised |-> c.raised, calls |-> c.calls]
           /\ IF c.raised
                THEN /\ pc' = "finally"
                     /\ exc' = "ValueError"
                     /\ UNCHANGED << idx, results, first_calls, applications >>
                ELSE /\ results' = Append(results, outcome_of(app, c.result))
                     /\ first_calls' = Append(first_calls, returned_of(c.calls))
                     /\ idx' = idx + 1
                     /\ UNCHANGED << pc, exc, applications >>
  /\ UNCHANGED << registry, deps, first_results, patchVars, fn_in, fn_out >>

(* The first check_all returns its list; check_all is called again with the
   same list of applications. *)
Rerun ==
  /\ pc = "check_all"
  /\ idx = Len(applications)
  /\ first_results' = results
  /\ results' = << >>
  /\ idx' = 0
  /\ pc' = "check_all_again"
  /\ UNCHANGED << registry, deps, applications, scraper, exc, last, first_calls, patchVars, fn_in, fn_out >>

(* One pass of the loop of the second check_all: the adapters return what
   they returned for this application the first time. *)
CheckAgain ==
  /\ pc = "check_all_again"
  /\ idx < Len(applications)
  /\ LET app  == applications[idx + 1]
         auth == get_default(app, "auth", "")
         ref  == get_default(app, "ref", << >>)
     IN  \E c \in check_application(scraper, deps, registry, auth, ref) :
           /\ ~c.raised
           /\ same_answers(first_calls[idx + 1], returned_of(c.calls))
           /\ scraper' = c.o
           /\ last' = [auth |-> auth, ref |-> ref, result |-> c.result,
                       raised |-> c.raised, calls |-> c.calls]
           /\ results' = Append(results, outcome_of(app, c.result))
           /\ idx' = idx + 1
  /\ UNCHANGED << pc, exc, registry, deps, applications, first_results, first_calls, patchVars, fn_in, fn_out >>

NextRerun ==
  \/ CheckFirst
  \/ Rerun
  \/ CheckAgain

SpecRerun ==
  InitRerun /\ [][NextRerun]_vars

(* ---------------------------------------------------------------------- *)
(* Properties of a repeated check_all (SpecRerun)                         *)
(* ---------------------------------------------------------------------- *)

(* The change set of an outcome; a failed outcome has none. *)
changes_in(outcome) ==
  IF "_changes" \in DOMAIN outcome THEN outcome._changes ELSE NullDict

(* C12: when check_all has run twice on the same list of applications and
   the adapters returned the same both times, the second run gives, for
   every application, the change set and the has-changes flag the first run
   gave; in particular the first run left the tracked applications as they
   were. *)
C12_RerunSameChanges ==
  (pc = "check_all_again" /\ idx = Len(applications))
    => /\ Len(results) = Len(first_results)
       /\ \A i \in 1..Len(results) :
            /\ changes_in(results[i]) = changes_in(first_results[i])
            /\ get(results[i], "_has_changes") = get(first_results[i], "_has_changes")
            /\ results[i]._scrape_status = first_results[i]._scrape_status

(* C12 witness: both runs are done and the first found a change. *)
C12_Witness ==
  /\ pc = "check_all_again"
  /\ idx = Len(applications)
  /\ \E i \in 1..Len(results) :
       /\ "_changes" \in DOMAIN results[i]
       /\ DOMAIN results[i]._changes # {}
       /\ results[i]._changes = first_results[i]._changes

(* ---------------------------------------------------------------------- *)
(* The status table and its order (SpecNormalise)                         *)
(* ---------------------------------------------------------------------- *)

(* No key of the status table occurs in another key that is mapped to a
   different status. *)
NoConflictingKeys ==
  \A i, j \in 1..Len(STATUS_ITEMS) :
    contains(STATUS_ITEMS[i][1], STATUS_ITEMS[j][1])
      => STATUS_ITEMS[i][2] = STATUS_ITEMS[j][2]

(* C13 as stated: no key of the status table occurs in another key that is
   mapped to a different status, so that the order of the table does not
   decide the result: a status text that is itself a key of the table is
   normalised to the status written beside that key. *)
C13_OrderNotLoadBearing ==
  (pc = "normalise_status_returned" /\ Truthy(fn_in))
    => \A j \in 1..Len(STATUS_ITEMS) :
         STATUS_ITEMS[j][1] = lower(strip(fn_in))
           => NoConflictingKeys /\ fn_out = STATUS_ITEMS[j][2]

(* ---------------------------------------------------------------------- *)
(* The merge of search row and detail page (SpecAdapter)                  *)
(* ---------------------------------------------------------------------- *)

(* The Agile adapter returned a record for which it read the detail page. *)
AgileMerged ==
  /\ pc = "scrape_application_returned"
  /\ fn_in.kind = "agile"
  /\ fn_out # NullDict
  /\ Truthy(get(fn_in.env.row_data, "id"))
  /\ DictTruthy(_fetch_detail(fn_in.env))

(* C14 as stated: in the record the Agile adapter returns, a field the
   detail page gave has the detail page's value, except the grant date:
   when the search row gave a grant date, the record keeps that one. *)
C14_GrantDateFirstWrite ==
  AgileMerged =>
    LET detail == _fetch_detail(fn_in.env)
        searched == parse_date(get(fn_in.env.row_data, "finalGrantDate"))
    IN  /\ \A k \in DOMAIN detail \ {"grantDate"} : fn_out[k] = detail[k]
        /\ Truthy(searched) => fn_out.grantDate = searched
        /\ (~Truthy(searched) /\ "grantDate" \in DOMAIN detail)
             => fn_out.grantDate = detail.grantDate

(* ---------------------------------------------------------------------- *)
(* The further-information rule of the ePlanning adapter (SpecAdapter)    *)
(* ---------------------------------------------------------------------- *)

(* The label _parse_detail_page reads in the first cell of a row. *)
label_of(row) ==
  rstrip_colon(lower(strip(row[1])))

(* The ePlanning adapter received a page and parsed its rows: the request
   succeeded and the page did not pass for an error page. *)
EPlanningParsed ==
  /\ pc = "scrape_application_returned"
  /\ fn_in.kind = "eplanning"
  /\ fn_in.env.http = "ok"
  /\ error_page_test(fn_in.env.html) = "false"

(* The page has a "further info requested" row with a date that parses. *)
HasFiRequestedRow(rows) ==
  \E k \in 1..Len(rows) :
    /\ contains(<<"f","u","r","t","h","e","r"," ","i","n","f","o"," ","r","e","q","u","e","s","t","e","d">>, label_of(rows[k]))
    /\ Truthy(parse_date(strip(rows[k][2])))

(* The page has a "planning status" row whose text maps to New Application. *)
HasNewApplicationRow(rows) ==
  \E k \in 1..Len(rows) :
    /\ contains(<<"p","l","a","n","n","i","n","g"," ","s","t","a","t","u","s">>, label_of(rows[k]))
    /\ normalise_status(strip(rows[k][2])) = NewApplication

(* C15 as stated: whenever a parsed ePlanning page has a "further info
   requested" row with a date that parses and a planning-status row mapped
   to New Application, the status of the returned record is Further
   Information Requested. *)
C15_FiOverridesNewApplication ==
  (/\ EPlanningParsed
   /\ HasFiRequestedRow(fn_in.env.html.rows)
   /\ HasNewApplicationRow(fn_in.env.html.rows))
    => /\ fn_out # NullDict
       /\ get(fn_out, "status") = FurtherInformationRequested


(* ---------------------------------------------------------------------- *)
(* C16: reference check of the Agile adapter                               *)
(* ---------------------------------------------------------------------- *)

(* The Agile adapter has returned from scrape_application. *)
AgileReturned ==
  /\ pc = "scrape_application_returned"
  /\ fn_in.kind = "agile"

(* The first result row carries exactly the requested reference and is not
   the error marker of the page script. *)
ReferenceMatches(row_data, ref) ==
  /\ DictTruthy(row_data)
  /\ "error" \notin DOMAIN row_data
  /\ get(row_data, "reference") = ref

(* C16: the Agile adapter returns a record only when the first result row's
   reference equals the requested reference exactly, and that record carries
   the requested reference; a row of another reference, a row without a
   reference and the error marker all give null. *)
C16_ReferenceMustMatch ==
  AgileReturned =>
    /\ fn_out # NullDict =>
         /\ ReferenceMatches(fn_in.env.row_data, fn_in.ref)
         /\ get(fn_out, "ref") = fn_in.ref
    /\ ~ReferenceMatches(fn_in.env.row_data, fn_in.ref) => fn_out = NullDict

(* A record was returned for a row of the requested reference. *)
C16_Witness ==
  /\ AgileReturned
  /\ fn_out # NullDict
  /\ ReferenceMatches(fn_in.env.row_data, fn_in.ref)
  /\ get(fn_out, "ref") = fn_in.ref

(* ---------------------------------------------------------------------- *)
(* C17: empty and "no results" pages of the ePlanning adapter              *)
(* ---------------------------------------------------------------------- *)

(* The ePlanning adapter has returned and the page was received. *)
EPlanningPageRead ==
  /\ pc = "scrape_application_returned"
  /\ fn_in.kind = "eplanning"
  /\ fn_in.env.http = "ok"

(* "no results found" in html.lower() *)
HasNoResultsMarker(html) ==
  contains(<<"n","o"," ","r","e","s","u","l","t","s"," ","f","o","u","n","d">>, lower(html.text))

(* No key of the record other than "ref" has a value. *)
NoValueBeyondRef(result) ==
  \A k \in DOMAIN result \ {"ref"} : ~Truthy(result[k])

(* C17: the ePlanning adapter gives null for a page with the "no results
   found" marker and for a page whose rows leave the record without any
   value beyond the reference. *)
C17_EmptyPageIsNull ==
  (/\ EPlanningPageRead
   /\ \/ HasNoResultsMarker(fn_in.env.html)
      \/ NoValueBeyondRef(detail_rows([ref |-> fn_in.ref], fn_in.env.html.rows)))
    => fn_out = NullDict

(* ---------------------------------------------------------------------- *)
(* update_dashboard.py: text of index.html                                *)
(* ---------------------------------------------------------------------- *)

(* JSON true and false. *)
PyTrue ==
  <<"True">>

PyFalse ==
  <<"False">>

(* s[i:].startswith(sub), i counted from 1. *)
startswith_at(s, sub, i) ==
  /\ i + Len(sub) - 1 <= Len(s)
  /\ SubSeq(s, i, i + Len(sub) - 1) = sub

(* The least position of a set of positions; 0 for the empty set. *)
leftmost(positions) ==
  IF positions = {} THEN 0
  ELSE CHOOSE i \in positions : \A j \in positions : i <= j

(* s.find(sub, start), counted from 1; 0 when sub does not occur. *)
str_find(s, sub, start) ==
  leftmost({ i \in start..(Len(s) - Len(sub) + 1) : SubSeq(s, i, i + Len(sub) - 1) = sub })

(* s.replace(old, new) for a non-empty old. *)
RECURSIVE str_replace(_, _, _)
str_replace(s, old, new) ==
  IF str_find(s, old, 1) = 0 THEN s
  ELSE SubSeq(s, 1, str_find(s, old, 1) - 1) \o new
         \o str_replace(SubSeq(s, str_find(s, old, 1) + Len(old), Len(s)), old, new)

(* s.rstrip(".") *)
RECURSIVE rstrip_dot(_)
rstrip_dot(s) ==
  IF s # << >> /\ s[Len(s)] = "." THEN rstrip_dot(SubSeq(s, 1, Len(s) - 1)) ELSE s

(* No match of a regular expression. *)
NoMatch ==
  << 0, 0 >>

(* The text of a match << start, end >>; no text where nothing matched. *)
group(s, match) ==
  IF match = NoMatch THEN << >> ELSE SubSeq(s, match[1], match[2])

(* A match of \{[^}]*KEY[^}]*\} that starts at the "{" in position i, whose
   next "}" is in position j (0: there is none). *)
entry_at(html, key, i, j) ==
  IF j # 0 /\ contains(key, SubSeq(html, i + 1, j - 1)) THEN << i, j >> ELSE NoMatch

(* re.search(pattern, html) with pattern = \{[^}]*ref:"REF"[^}]*\}: the
   leftmost "{" from which the text up to the next "}" contains ref:"REF".
   [^}]* runs over any character but "}", another "{" included. *)
entry_from(html, key, i) ==
  IF i = 0 THEN NoMatch ELSE entry_at(html, key, i, str_find(html, <<"}">>, i + 1))

entry_search(html, key) ==
  entry_from(html, key,
    leftmost({ i \in 1..Len(html) :
                 /\ html[i] = "{"
                 /\ entry_at(html, key, i, str_find(html, <<"}">>, i + 1)) # NoMatch }))

(* The pattern of the three functions for one reference; re.escape leaves
   the characters of a reference standing for themselves. *)
entry_match(html, ref) ==
  entry_search(html, <<"r","e","f",":","\"">> \o ref \o <<"\"">>)

(* Where a match of the value alternatives of field_pattern (a quoted text
   without a quote inside, null, true, false) that starts in position q
   ends; 0 when there is none. *)
value_end(entry, q) ==
  IF q > Len(entry) THEN 0
  ELSE IF entry[q] = "\"" THEN str_find(entry, <<"\"">>, q + 1)
  ELSE IF startswith_at(entry, <<"n","u","l","l">>, q) THEN q + 3
  ELSE IF startswith_at(entry, <<"t","r","u","e">>, q) THEN q + 3
  ELSE IF startswith_at(entry, <<"f","a","l","s","e">>, q) THEN q + 4
  ELSE 0

(* re.search(field_pattern, new_entry) from position p on: the leftmost
   place where the text FIELD: is followed by a value, wherever it stands. *)
field_from(entry, field, p) ==
  IF p = 0 THEN NoMatch ELSE << p, value_end(entry, p + Len(field) + 1) >>

field_search(entry, field, start) ==
  field_from(entry, field,
    leftmost({ p \in start..Len(entry) :
                 /\ startswith_at(entry, field \o <<":">>, p)
                 /\ value_end(entry, p + Len(field) + 1) # 0 }))

(* val_str of a new value that is not None. *)
val_str(new_val) ==
  IF new_val = PyTrue THEN <<"t","r","u","e">>
  ELSE IF new_val = PyFalse THEN <<"f","a","l","s","e">>
  ELSE IF new_val = << >> THEN <<"n","u","l","l">>
  ELSE <<"\"">> \o new_val \o <<"\"">>

(* new_entry[:start] + FIELD:val_str + new_entry[end:], or new_entry as it
   is when the field was not found. *)
put_field(new_entry, field, new_val, field_match) ==
  IF field_match = NoMatch THEN new_entry
  ELSE SubSeq(new_entry, 1, field_match[1] - 1) \o field \o <<":">> \o val_str(new_val)
         \o SubSeq(new_entry, field_match[2] + 1, Len(new_entry))

(* The loop over changes.items(); changes is the sequence of the
   << field, new value >> pairs in the order of the dict. *)
RECURSIVE apply_changes(_, _)
apply_changes(new_entry, changes) ==
  IF changes = << >> THEN new_entry
  ELSE IF changes[1][2] = NULL THEN apply_changes(new_entry, Tail(changes))
  ELSE apply_changes(put_field(new_entry, changes[1][1], changes[1][2],
                               field_search(new_entry, changes[1][1], 1)),
                     Tail(changes))

(* The end of find_and_update_entry. *)
replace_entry(html, old_entry, new_entry) ==
  IF new_entry # old_entry
    THEN [html |-> str_replace(html, old_entry, new_entry), updated |-> TRUE]
    ELSE [html |-> html, updated |-> FALSE]

(* find_and_update_entry(html, ref, changes), returning html and updated. *)
find_and_update_entry(html, ref, changes) ==
  IF entry_match(html, ref) = NoMatch THEN [html |-> html, updated |-> FALSE]
  ELSE replace_entry(html, group(html, entry_match(html, ref)),
                     apply_changes(group(html, entry_match(html, ref)), changes))

(* The sentence update_summary_for_fi appends, with its separator. *)
FiNote ==
  <<"."," ","F","u","r","t","h","e","r"," ","i","n","f","o","r","m","a","t","i","o","n"," ","r","e","q","u","e","s","t","e","d"," ","b","y"," ","t","h","e"," ","p","l","a","n","n","i","n","g"," ","a","u","t","h","o","r","i","t","y",".">>

(* re.search of NAME: followed by a quoted text without a quote inside,
   from position p on: << start, end >>. *)
quoted_from(entry, name, p) ==
  IF p = 0 THEN NoMatch ELSE << p, str_find(entry, <<"\"">>, p + Len(name) + 2) >>

quoted_search(entry, name, start) ==
  quoted_from(entry, name,
    leftmost({ p \in start..Len(entry) :
                 /\ startswith_at(entry, name \o <<":","\"">>, p)
                 /\ str_find(entry, <<"\"">>, p + Len(name) + 2) # 0 }))

(* The summary branch of update_summary_for_fi: summary_match is the match
   of the summary pattern in entry. *)
append_note(html, entry, summary_match) ==
  IF summary_match = NoMatch THEN html
  ELSE str_replace(html, entry,
         str_replace(entry, group(entry, summary_match),
                     <<"s","u","m","m","a","r","y",":","\"">>
                       \o rstrip_dot(SubSeq(entry, summary_match[1] + 9, summary_match[2] - 1))
                       \o FiNote \o <<"\"">>))

(* update_summary_for_fi(html, ref) once the entry is found. *)
summary_for_entry(html, entry) ==
  IF contains(<<"f","u","r","t","h","e","r"," ","i","n","f","o","r","m","a","t","i","o","n">>, lower(entry)) /\ contains(<<"r","e","q","u","e","s","t","e","d">>, lower(entry))
    THEN html
    ELSE append_note(html, entry, quoted_search(entry, <<"s","u","m","m","a","r","y">>, 1))

update_summary_for_fi(html, ref) ==
  IF entry_match(html, ref) = NoMatch THEN html
  ELSE summary_for_entry(html, group(html, entry_match(html, ref)))

(* re.sub of a quoted decDue value by decDue:null in entry, match being the
   first match in entry. *)
RECURSIVE sub_decDue(_, _)
sub_decDue(entry, match) ==
  IF match = NoMatch THEN entry
  ELSE SubSeq(entry, 1, match[1] - 1) \o <<"d","e","c","D","u","e",":","n","u","l","l">>
         \o sub_decDue(SubSeq(entry, match[2] + 1, Len(entry)),
                       quoted_search(SubSeq(entry, match[2] + 1, Len(entry)), <<"d","e","c","D","u","e">>, 1))

(* clear_decision_due_for_fi(html, ref) once the entry is found. *)
clear_for_entry(html, entry) ==
  str_replace(html, entry, sub_decDue(entry, quoted_search(entry, <<"d","e","c","D","u","e">>, 1)))

clear_decision_due_for_fi(html, ref) ==
  IF entry_match(html, ref) = NoMatch THEN html
  ELSE clear_for_entry(html, group(html, entry_match(html, ref)))

(* ---------------------------------------------------------------------- *)
(* update_dashboard.py: inputs                                            *)
(* ---------------------------------------------------------------------- *)

(* Entries of DEFAULT_DATA as the docstring of find_and_update_entry
   describes them: one with a decision-due date, one without. *)
OfficeEntry ==
  <<"{","a","u","t","h",":","\"","C","o","r","k"," ","C","o","u","n","t","y"," ","C","o","u","n","c","i","l","\"",",","r","e","f",":","\"","2","5","/","6","8","9","8","\"",",","s","t","a","t","u","s",":","\"","N","e","w"," ","A","p","p","l","i","c","a","t","i","o","n","\"",",","d","e","c","D","u","e",":","\"","2","0","2","6","-","0","2","-","1","8","\"",",","s","u","m","m","a","r","y",":","\"","O","f","f","i","c","e"," ","e","x","t","e","n","s","i","o","n",".","\"","}">>

ResidentialEntry ==
  <<"{","a","u","t","h",":","\"","C","o","r","k"," ","C","i","t","y"," ","C","o","u","n","c","i","l","\"",",","r","e","f",":","\"","2","5","/","4","4","4","0","9","\"",",","s","t","a","t","u","s",":","\"","N","e","w"," ","A","p","p","l","i","c","a","t","i","o","n","\"",",","d","e","c","D","u","e",":","n","u","l","l",",","s","u","m","m","a","r","y",":","\"","R","e","s","i","d","e","n","t","i","a","l"," ","s","c","h","e","m","e","\"","}">>

(* The first entry after a run that applied a change to Further Information
   Requested and appended the note. *)
OfficeEntryPatched ==
  <<"{","a","u","t","h",":","\"","C","o","r","k"," ","C","o","u","n","t","y"," ","C","o","u","n","c","i","l","\"",",","r","e","f",":","\"","2","5","/","6","8","9","8","\"",",","s","t","a","t","u","s",":","\"","F","u","r","t","h","e","r"," ","I","n","f","o","r","m","a","t","i","o","n"," ","R","e","q","u","e","s","t","e","d","\"",",","d","e","c","D","u","e",":","n","u","l","l",",","s","u","m","m","a","r","y",":","\"","O","f","f","i","c","e"," ","e","x","t","e","n","s","i","o","n","."," ","F","u","r","t","h","e","r"," ","i","n","f","o","r","m","a","t","i","o","n"," ","r","e","q","u","e","s","t","e","d"," ","b","y"," ","t","h","e"," ","p","l","a","n","n","i","n","g"," ","a","u","t","h","o","r","i","t","y",".","\"","}">>

(* The patched first entry after somebody has entered a new decision-due
   date by hand. *)
OfficeEntryResumed ==
  <<"{","a","u","t","h",":","\"","C","o","r","k"," ","C","o","u","n","t","y"," ","C","o","u","n","c","i","l","\"",",","r","e","f",":","\"","2","5","/","6","8","9","8","\"",",","s","t","a","t","u","s",":","\"","F","u","r","t","h","e","r"," ","I","n","f","o","r","m","a","t","i","o","n"," ","R","e","q","u","e","s","t","e","d","\"",",","d","e","c","D","u","e",":","\"","2","0","2","6","-","0","4","-","0","1","\"",",","s","u","m","m","a","r","y",":","\"","O","f","f","i","c","e"," ","e","x","t","e","n","s","i","o","n","."," ","F","u","r","t","h","e","r"," ","i","n","f","o","r","m","a","t","i","o","n"," ","r","e","q","u","e","s","t","e","d"," ","b","y"," ","t","h","e"," ","p","l","a","n","n","i","n","g"," ","a","u","t","h","o","r","i","t","y",".","\"","}">>

(* The first entry with its status in single quotes. *)
OfficeEntrySingleQuoted ==
  <<"{","a","u","t","h",":","\"","C","o","r","k"," ","C","o","u","n","t","y"," ","C","o","u","n","c","i","l","\"",",","r","e","f",":","\"","2","5","/","6","8","9","8","\"",",","s","t","a","t","u","s",":","'","N","e","w"," ","A","p","p","l","i","c","a","t","i","o","n","'",",","d","e","c","D","u","e",":","\"","2","0","2","6","-","0","2","-","1","8","\"",",","s","u","m","m","a","r","y",":","\"","O","f","f","i","c","e"," ","e","x","t","e","n","s","i","o","n",".","\"","}">>

(* index.html (the part that holds the data): the array on its own, and the
   array as a member of an object that has fields of its own before it. *)
FlatDocument ==
  <<"c","o","n","s","t"," ","D","E","F","A","U","L","T","_","D","A","T","A","=","[","\n">> \o OfficeEntry \o <<",","\n">> \o ResidentialEntry \o <<"\n","]",";">>

NestedDocument ==
  <<"c","o","n","s","t"," ","A","P","P","=","{","v","i","e","w",":","\"","l","i","s","t","\"",",","s","t","a","t","u","s",":","\"","a","l","l","\"",",","d","a","t","a",":","[","\n">> \o OfficeEntry \o <<",","\n">> \o ResidentialEntry \o <<"\n","]","}",";">>

PatchedDocument ==
  <<"c","o","n","s","t"," ","D","E","F","A","U","L","T","_","D","A","T","A","=","[","\n">> \o OfficeEntryPatched \o <<",","\n">> \o ResidentialEntry \o <<"\n","]",";">>

SingleQuotedDocument ==
  <<"c","o","n","s","t"," ","D","E","F","A","U","L","T","_","D","A","T","A","=","[","\n">> \o OfficeEntrySingleQuoted \o <<",","\n">> \o ResidentialEntry \o <<"\n","]",";">>

ResumedDocument ==
  <<"c","o","n","s","t"," ","D","E","F","A","U","L","T","_","D","A","T","A","=","[","\n">> \o OfficeEntryResumed \o <<",","\n">> \o ResidentialEntry \o <<"\n","]",";">>

Documents ==
  { FlatDocument, NestedDocument, PatchedDocument, ResumedDocument, SingleQuotedDocument }

(* Results of the scraper (the JSON of --output json) as main reads them: ref,
   _has_changes and _changes, the latter as the << field, new value >> pairs
   in the order check_all fills the dict. *)
FiOnly ==
  [ref |-> <<"2","5","/","6","8","9","8">>, _has_changes |-> TRUE,
   _changes |-> << << <<"s","t","a","t","u","s">>, <<"F","u","r","t","h","e","r"," ","I","n","f","o","r","m","a","t","i","o","n"," ","R","e","q","u","e","s","t","e","d">> >> >>]

FiAndDecDue ==
  [ref |-> <<"2","5","/","6","8","9","8">>, _has_changes |-> TRUE,
   _changes |-> << << <<"s","t","a","t","u","s">>, <<"F","u","r","t","h","e","r"," ","I","n","f","o","r","m","a","t","i","o","n"," ","R","e","q","u","e","s","t","e","d">> >>, << <<"d","e","c","D","u","e">>, <<"2","0","2","6","-","0","3","-","0","4">> >> >>]

DecDueOnly ==
  [ref |-> <<"2","5","/","6","8","9","8">>, _has_changes |-> TRUE,
   _changes |-> << << <<"d","e","c","D","u","e">>, <<"2","0","2","6","-","0","3","-","0","4">> >> >>]

Decided ==
  [ref |-> <<"2","5","/","4","4","4","0","9">>, _has_changes |-> TRUE,
   _changes |-> << << <<"s","t","a","t","u","s">>, <<"D","e","c","i","s","i","o","n"," ","M","a","d","e">> >>, << <<"d","e","c","D","a","t","e">>, <<"2","0","2","6","-","0","2","-","0","1">> >> >>]

Untracked ==
  [ref |-> <<"2","5","/","6","7","9","6">>, _has_changes |-> TRUE,
   _changes |-> << << <<"s","t","a","t","u","s">>, <<"F","u","r","t","h","e","r"," ","I","n","f","o","r","m","a","t","i","o","n"," ","R","e","q","u","e","s","t","e","d">> >> >>]

Unchanged ==
  [ref |-> <<"2","5","/","4","4","4","4","2">>, _has_changes |-> FALSE, _changes |-> << >>]

ScraperResults ==
  { FiOnly, FiAndDecDue, DecDueOnly, Decided, Untracked, Unchanged }

(* Longest list of results the scraper hands over. *)
MaxResults ==
  2

(* What run_scraper returns: one result for each tracked application. *)
ResultLists ==
  { l \in UNION { [1..n -> ScraperResults] : n \in 0..MaxResults } :
      \A i, j \in 1..Len(l) : i # j => l[i].ref # l[j].ref }

(* ---------------------------------------------------------------------- *)
(* update_dashboard.main                                                  *)
(* ---------------------------------------------------------------------- *)

(* changed = [r for r in results if r.get("_has_changes")] *)
HasChanges(r) ==
  r._has_changes

changed ==
  SelectSeq(results, HasChanges)

(* changes.get("status", {}).get("new") *)
RECURSIVE status_new(_)
status_new(changes) ==
  IF changes = << >> THEN NULL
  ELSE IF changes[1][1] = <<"s","t","a","t","u","s">> THEN changes[1][2]
  ELSE status_new(Tail(changes))

(* The special handling of a change to Further Information Requested. *)
fi_handling(html, ref) ==
  clear_decision_due_for_fi(update_summary_for_fi(html, ref), ref)

(* html after the body of the loop for one result, found being what
   find_and_update_entry returned. *)
html_after(found, ref, changes) ==
  IF found.updated /\ status_new(changes) = FurtherInformationRequested
    THEN fi_handling(found.html, ref)
    ELSE found.html

(* The same body with the decision-due date cleared before the changes are
   applied. *)
PatchNext_clear_first ==
  /\ pc = "apply_changes"
  /\ idx < Len(changed)
  /\ LET r == changed[idx + 1]
         cleared == IF status_new(r._changes) = FurtherInformationRequested
                      THEN clear_decision_due_for_fi(main_html, r.ref)
                      ELSE main_html
         found == find_and_update_entry(cleared, r.ref, r._changes)
     IN  /\ main_html' = IF found.updated /\ status_new(r._changes) = FurtherInformationRequested
                           THEN update_summary_for_fi(found.html, r.ref)
                           ELSE found.html
         /\ commit_lines' = IF found.updated THEN Append(commit_lines, r.ref) ELSE commit_lines
         /\ last' = [html |-> main_html, ref |-> r.ref, changes |-> r._changes, found |-> found]
  /\ idx' = idx + 1
  /\ UNCHANGED << pc, registry, deps, applications, results, scraper, exc,
                  first_results, first_calls, index_html, first_index_html, fn_in, fn_out >>

(* One pass of the loop over changed (lines 202-220). *)
PatchNext ==
  /\ pc = "apply_changes"
  /\ idx < Len(changed)
  /\ LET r == changed[idx + 1]
         found == find_and_update_entry(main_html, r.ref, r._changes)
     IN  /\ main_html' = html_after(found, r.ref, r._changes)
         /\ commit_lines' = IF found.updated THEN Append(commit_lines, r.ref) ELSE commit_lines
         /\ last' = [html |-> main_html, ref |-> r.ref, changes |-> r._changes, found |-> found]
  /\ idx' = idx + 1
  /\ UNCHANGED << pc, registry, deps, applications, results, scraper, exc,
                  first_results, first_calls, index_html, first_index_html, fn_in, fn_out >>

(* main up to its exit when the scraper reported nothing or no change
   (lines 176-194). *)
PatchNothing ==
  /\ pc = "update_dashboard"
  /\ changed = << >>
  /\ pc' = "exit"
  /\ UNCHANGED << runVars, fn_in, fn_out >>

(* main up to the loop: index.html is read (lines 176-201). *)
PatchRead ==
  /\ pc = "update_dashboard"
  /\ changed # << >>
  /\ main_html' = index_html
  /\ commit_lines' = << >>
  /\ idx' = 0
  /\ pc' = "apply_changes"
  /\ UNCHANGED << registry, deps, applications, results, scraper, exc, last,
                  first_results, first_calls, index_html, first_index_html, fn_in, fn_out >>

(* main after the loop: index.html is written when a change was applied
   (lines 222-241). *)
PatchWrite ==
  /\ pc = "apply_changes"
  /\ idx = Len(changed)
  /\ index_html' = IF commit_lines # << >> THEN main_html ELSE index_html
  /\ pc' = "exit"
  /\ UNCHANGED << registry, deps, applications, idx, results, scraper, exc, last,
                  first_results, first_calls, main_html, commit_lines, first_index_html,
                  fn_in, fn_out >>

(* update_dashboard.py is run once more; the scraper, whose tracked list
   the patcher does not write, reports the same results. *)
PatchAgain ==
  /\ pc = "exit"
  /\ first_index_html = NULL
  /\ first_index_html' = index_html
  /\ main_html' = << >>
  /\ commit_lines' = << >>
  /\ idx' = 0
  /\ pc' = "update_dashboard"
  /\ UNCHANGED << registry, deps, applications, results, scraper, exc, last,
                  first_results, first_calls, index_html, fn_in, fn_out >>

InitPatcher ==
  /\ pc = "update_dashboard"
  /\ registry = PORTAL_REGISTRY
  /\ deps = [HAS_PLAYWRIGHT |-> TRUE, HAS_REQUESTS |-> TRUE, HAS_BS4 |-> TRUE]
  /\ applications = << >>
  /\ idx = 0
  /\ results \in ResultLists
  /\ scraper = NewOrchestrator
  /\ exc = "None"
  /\ last = NoCall
  /\ first_results = << >>
  /\ first_calls = << >>
  /\ index_html \in Documents
  /\ main_html = << >>
  /\ commit_lines = << >>
  /\ first_index_html = NULL
  /\ fn_in = NULL
  /\ fn_out = NULL

NextPatcher ==
  \/ PatchNothing
  \/ PatchRead
  \/ PatchNext
  \/ PatchWrite
  \/ PatchAgain

SpecPatcher ==
  InitPatcher /\ [][NextPatcher]_vars

(* ---------------------------------------------------------------------- *)
(* Properties of update_dashboard.py (SpecPatcher)                        *)
(* ---------------------------------------------------------------------- *)

(* The greatest position of a set of positions; 0 for the empty set. *)
rightmost(positions) ==
  IF positions = {} THEN 0
  ELSE CHOOSE i \in positions : \A j \in positions : j <= i

(* The entry of a reference in a document, read as the dashboard reads it:
   the object literal that has ref:"REF" as a member, from its opening
   brace to its closing brace.  k is where ref:"REF" stands. *)
entry_around(html, k) ==
  IF k = 0 THEN NoMatch
  ELSE << rightmost({ i \in 1..k : html[i] = "{" }), str_find(html, <<"}">>, k) >>

own_entry(html, ref) ==
  entry_around(html, str_find(html, <<"r","e","f",":","\"">> \o ref \o <<"\"">>, 1))

(* The value of the summary field of an entry. *)
summary_at(entry, summary_match) ==
  IF summary_match = NoMatch THEN << >>
  ELSE SubSeq(entry, summary_match[1] + 9, summary_match[2] - 1)

summary_of(entry) ==
  summary_at(entry, quoted_search(entry, <<"s","u","m","m","a","r","y">>, 1))

(* How often the sentence stands in the summary of the entry of ref. *)
occurrences(s, sub) ==
  Cardinality({ i \in 1..Len(s) : startswith_at(s, sub, i) })

NoteCount(html, ref) ==
  occurrences(summary_of(group(html, own_entry(html, ref))),
              <<"F","u","r","t","h","e","r"," ","i","n","f","o","r","m","a","t","i","o","n"," ","r","e","q","u","e","s","t","e","d"," ","b","y"," ","t","h","e"," ","p","l","a","n","n","i","n","g"," ","a","u","t","h","o","r","i","t","y",".">>)

(* The result is a change to Further Information Requested that this run
   of main applied. *)
FiApplied(r) ==
  /\ status_new(r._changes) = FurtherInformationRequested
  /\ \E i \in 1..Len(commit_lines) : commit_lines[i] = r.ref

(* C18: when main has applied a change of status to Further Information
   Requested, the summary of that entry in index.html contains the sentence
   "Further information requested by the planning authority." exactly once,
   and a second run with the same change does not add it again. *)
C18_NoteAppendedOnce ==
  pc = "exit" =>
    \A i \in 1..Len(changed) :
      /\ FiApplied(changed[i]) => NoteCount(index_html, changed[i].ref) = 1
      /\ (first_index_html # NULL
            /\ status_new(changed[i]._changes) = FurtherInformationRequested)
           => NoteCount(index_html, changed[i].ref) <= 1

(* The decision-due date of the entry of ref is null. *)
DecDueIsNull(html, ref) ==
  /\ quoted_search(group(html, own_entry(html, ref)), <<"d","e","c","D","u","e">>, 1) = NoMatch
  /\ contains(<<"d","e","c","D","u","e",":","n","u","l","l">>, group(html, own_entry(html, ref)))

(* The result reports a change of status to Further Information Requested
   for an application that has an entry in index.html. *)
FiReported(r) ==
  /\ status_new(r._changes) = FurtherInformationRequested
  /\ own_entry(index_html, r.ref) # NoMatch

(* C19 as stated: after main has processed a change set whose status goes to
   Further Information Requested, the decision-due date of that entry is
   null. *)
C19_AsStated ==
  pc = "exit" =>
    \A i \in 1..Len(changed) :
      FiReported(changed[i]) => DecDueIsNull(index_html, changed[i].ref)

(* C19: after main has applied a change set whose status goes to Further
   Information Requested (find_and_update_entry changed the entry), the
   decision-due date of that entry is null, also when the change set carries
   a new decision-due date. *)
C19_DecDueCleared ==
  pc = "exit" =>
    \A i \in 1..Len(changed) :
      FiApplied(changed[i]) => DecDueIsNull(index_html, changed[i].ref)

(* A change set with a new status and a new decision-due date was applied
   and the date of the entry is null. *)
C19_Witness ==
  /\ pc = "exit"
  /\ \E i \in 1..Len(changed) :
       /\ changed[i] = FiAndDecDue
       /\ FiApplied(changed[i])
       /\ DecDueIsNull(index_html, changed[i].ref)

(* find_and_update_entry has been called; last holds the call. *)
EntryUpdateCalled ==
  /\ pc \in {"apply_changes", "exit"}
  /\ idx > 0

(* The member FIELD:value of an entry: the field pattern where it follows
   the opening brace or a comma. *)
member_search(entry, field) ==
  field_from(entry, field,
    leftmost({ p \in 2..Len(entry) :
                 /\ entry[p - 1] \in {"{", ","}
                 /\ startswith_at(entry, field \o <<":">>, p)
                 /\ value_end(entry, p + Len(field) + 1) # 0 }))

member_of(entry, field) ==
  group(entry, member_search(entry, field))

(* The fields of the entries of DEFAULT_DATA. *)
EntryFields ==
  { <<"a","u","t","h">>, <<"r","e","f">>, <<"s","t","a","t","u","s">>, <<"d","e","c","D","u","e">>, <<"s","u","m","m","a","r","y">> }

(* The fields a change set names with a new value. *)
named_fields(changes) ==
  { changes[i][1] : i \in { j \in 1..Len(changes) : changes[j][2] # NULL } }

(* What stands before and after an entry << start, end >> of a document. *)
before_entry(html, entry) ==
  SubSeq(html, 1, entry[1] - 1)

after_entry(html, entry) ==
  SubSeq(html, entry[2] + 1, Len(html))

(* The document after the call differs from the one before only in the
   named fields of the entry of ref. *)
OnlyNamedFields(before, after, ref, changes) ==
  /\ own_entry(after, ref) # NoMatch
  /\ before_entry(after, own_entry(after, ref)) = before_entry(before, own_entry(before, ref))
  /\ after_entry(after, own_entry(after, ref)) = after_entry(before, own_entry(before, ref))
  /\ \A f \in EntryFields \ named_fields(changes) :
       member_of(group(after, own_entry(after, ref)), f)
         = member_of(group(before, own_entry(before, ref)), f)

(* The entry of ref has none of the named fields. *)
NoNamedField(html, ref, changes) ==
  \A f \in named_fields(changes) :
    member_search(group(html, own_entry(html, ref)), f) = NoMatch

(* C20: find_and_update_entry changes only the values of the fields the
   change set names, inside the entry of the given reference; the other
   fields of the entry, the other entries and the rest of the document stay
   as they are, and when the reference has no entry or the entry has none of
   the named fields the document is returned unchanged with updated false. *)
C20_OnlyNamedFieldsOfEntry ==
  EntryUpdateCalled =>
    /\ own_entry(last.html, last.ref) # NoMatch
         => OnlyNamedFields(last.html, last.found.html, last.ref, last.changes)
    /\ (own_entry(last.html, last.ref) = NoMatch
          \/ NoNamedField(last.html, last.ref, last.changes))
         => /\ last.found.html = last.html
            /\ ~last.found.updated
====
